---- MODULE Spec2Model ----
\* Workflow state machine of the AI program factory: the SQLite query layer
\* (database/queries), the WorkflowManager built on it and the workflow router
\* that drives the manager from HTTP requests.
\*
\* Timestamps (created_at, updated_at, decided_at) are not part of the state:
\* the order of the rows of human_decisions is the order of the sequence.
EXTENDS Integers, Sequences, FiniteSets, TLC

\* ------------------------------------------------------------------ bounds
\* the longest decision log explored
MaxDecisions == 2

\* ------------------------------------------------------------------ values
\* SQL NULL / JavaScript null as a column or field value
NULL == "<null>"

\* the enum of steps accepted by advanceToStep
WorkflowStep ==
  { "brief", "route_selection", "route_a_upload", "content_review",
    "approach_selection_a", "arc_generation", "arc_review",
    "route_b_research", "approach_selection_b", "matrix_generation",
    "matrix_review", "sample_generation", "sample_validation",
    "batch_generation", "completed" }

\* every step name the router hands to advanceToStep or completeSession
StepNames == WorkflowStep \cup { "framework_selection" }

Routes == { "A", "B" }

\* the ids generateId can hand out (each at most once)
SessionIds == { "s1" }

ClientNames == { "Acme" }
Industries == { "Retail" }

\* JavaScript values handed to saveStepData: type is the result of typeof
\* (null has typeof "object"; it is kept apart by its tag), repr is the
\* characters of a string and the JSON text of every other value.
JsString(s) == [type |-> "string", repr |-> s]
JsNumber(t) == [type |-> "number", repr |-> t]
JsObject(t) == [type |-> "object", repr |-> t]
JsNull == [type |-> "null", repr |-> "null"]

ArcObject == JsObject("{\"title\":\"Arc\"}")
BriefObject == JsObject("{\"clientName\":\"Acme\"}")

FilesArray == JsObject("[{\"originalName\":\"a.txt\"}]")
AnalysisObject == JsObject("{\"totalWords\":3}")
MatrixObject == JsObject("{\"programTitle\":\"Test Program\"}")
SampleObject == JsObject("{\"title\":\"Sample\"}")
BatchObject == JsObject("{\"programTitle\":\"Test Program\",\"sessions\":[]}")

\* the text combineDocuments extracts from the uploaded files
ContentText == JsString("API design training content")

JsValues ==
  { JsString("scenario-based"), JsString("123"), JsString("null"),
    JsNumber("123"), JsNull, ArcObject, BriefObject,
    FilesArray, AnalysisObject, MatrixObject, SampleObject, BatchObject }

\* JSON.stringify
JSONstringify(v) ==
  IF v.type = "string" THEN "\"" \o v.repr \o "\"" ELSE v.repr

\* JSON.parse succeeds exactly on the JSON texts
JSONparses(text) == \E v \in JsValues : JSONstringify(v) = text

JSONparse(text) == CHOOSE v \in JsValues : JSONstringify(v) = text

\* JavaScript truthiness of a value, as tested by `if (!brief)`
Truthy(v) ==
  /\ v.type # "null"
  /\ ~(v.type = "string" /\ v.repr = "")
  /\ ~(v.type = "number" /\ v.repr = "0")

\* ------------------------------------------------------------------ state
VARIABLES
  workflow_sessions,   \* table workflow_sessions: id -> row
  session_data,        \* table session_data: <<session_id, data_key>> -> data_value
  human_decisions,     \* table human_decisions, in insertion order
  generated,           \* the ids generateId has handed out
  last,                \* the last call and what it returned to its caller
  generated_content,   \* table generated_content: the set of its rows
  prompt_templates,    \* table prompt_templates, in created_at order
  cache,               \* PromptTemplateService.cache: category -> template text
  inflight,            \* the calls in progress: client -> the queries still to run
  render,              \* the buildPrompt call: its arguments and what it returned
  qc,                  \* the qcAndFix call: its stubs, the calls made, the result
  unit,                \* a record of db.sessions and the services behind its artifacts
  progressStreams,     \* the Map progressStreams: job id -> the registered connection
  connections,         \* the progress connections: what each has been written
  events,              \* job id -> the number of sendProgress calls made for it
  job,                 \* the processProgram run: its position, its units, its records
  batch                \* the generateAllSessions run of the workflow router

vars == << workflow_sessions, session_data, human_decisions, generated, last,
           generated_content, prompt_templates, cache, inflight, render, qc, unit,
           progressStreams, connections, events, job, batch >>

\* the progress streams and the batch jobs
jobs == << progressStreams, connections, events, job, batch >>

\* the state of the services that use neither the tables nor the cache
services == << render, qc, unit, jobs >>

\* the template store and the calls in progress, left alone by a whole call
\* on the workflow tables
others == << prompt_templates, cache, inflight, services >>

\* one call and its outcome
Call(op, sid, arg, from, res, val) ==
  [op |-> op, sid |-> sid, arg |-> arg, from |-> from, res |-> res, val |-> val]

\* ------------------------------------------------------------------ queries
\* createSession: INSERT with the column defaults of the schema
createSession(tbl, id, clientName, industry) ==
  [i \in DOMAIN tbl \cup {id} |->
     IF i = id
     THEN [status |-> "active", current_step |-> "brief", route |-> NULL,
           client_name |-> clientName, industry |-> industry]
     ELSE tbl[i]]

\* a field of a Partial<WorkflowSession> that is present and truthy
Given(updates, f) == f \in DOMAIN updates /\ updates[f] # "" /\ updates[f] # NULL

\* updateSession that leaves current_step out of the SET list
updateSession_keepsStep(tbl, id, updates) ==
  IF id \notin DOMAIN tbl
  THEN tbl
  ELSE [tbl EXCEPT ![id] =
         [status |-> IF Given(updates, "status") THEN updates["status"] ELSE @.status,
          current_step |-> @.current_step,
          route |-> IF Given(updates, "route") THEN updates["route"] ELSE @.route,
          client_name |-> IF Given(updates, "client_name")
                          THEN updates["client_name"] ELSE @.client_name,
          industry |-> IF Given(updates, "industry")
                       THEN updates["industry"] ELSE @.industry]]

\* updateSession: UPDATE ... SET <the truthy fields> WHERE id = ?
updateSession(tbl, id, updates) ==
  IF id \notin DOMAIN tbl
  THEN tbl
  ELSE [tbl EXCEPT ![id] =
         [status |-> IF Given(updates, "status") THEN updates["status"] ELSE @.status,
          current_step |-> IF Given(updates, "current_step")
                           THEN updates["current_step"] ELSE @.current_step,
          route |-> IF Given(updates, "route") THEN updates["route"] ELSE @.route,
          client_name |-> IF Given(updates, "client_name")
                          THEN updates["client_name"] ELSE @.client_name,
          industry |-> IF Given(updates, "industry")
                       THEN updates["industry"] ELSE @.industry]]

\* saveSessionData: the text stored in data_value
dataValueText(dataValue) ==
  IF dataValue.type = "string" THEN dataValue.repr ELSE JSONstringify(dataValue)

\* saveSessionData: INSERT OR REPLACE on the primary key (session_id, data_key)
saveSessionData(tbl, sessionId, dataKey, dataValue) ==
  [k \in DOMAIN tbl \cup { <<sessionId, dataKey>> } |->
     IF k = <<sessionId, dataKey>> THEN dataValueText(dataValue) ELSE tbl[k]]

\* the value standing for an exception raised while reading
JsThrow == [type |-> "throw", repr |-> "TypeError"]

\* getSessionData without the `if (!row)` test: row.data_value of no row
getSessionData_noRowTest(tbl, sessionId, dataKey) ==
  IF <<sessionId, dataKey>> \notin DOMAIN tbl
  THEN JsThrow
  ELSE LET text == tbl[<<sessionId, dataKey>>]
       IN IF JSONparses(text) THEN JSONparse(text) ELSE JsString(text)

\* getSessionData: null without a row, else JSON.parse with the raw text as
\* the fallback
getSessionData(tbl, sessionId, dataKey) ==
  IF <<sessionId, dataKey>> \notin DOMAIN tbl
  THEN JsNull
  ELSE LET text == tbl[<<sessionId, dataKey>>]
       IN IF JSONparses(text) THEN JSONparse(text) ELSE JsString(text)

\* saveDecision as an INSERT OR REPLACE on (session_id, step): a second
\* decision at a step takes the place of the first
saveDecision_replacing(tbl, sessionId, step, decision, feedback) ==
  Append(SelectSeq(tbl, LAMBDA d : ~(d.session_id = sessionId /\ d.step = step)),
         [session_id |-> sessionId, step |-> step, decision |-> decision,
          feedback |-> IF feedback = "" THEN NULL ELSE feedback])

\* saveDecision: INSERT one row
saveDecision(tbl, sessionId, step, decision, feedback) ==
  Append(tbl, [session_id |-> sessionId, step |-> step, decision |-> decision,
               feedback |-> IF feedback = "" THEN NULL ELSE feedback])

\* getDecisions: the rows of one session in decided_at order
getDecisions(tbl, sessionId) ==
  SelectSeq(tbl, LAMBDA d : d.session_id = sessionId)

\* saveContent: INSERT one row of generated_content
saveContent(tbl, id, sessionId) == tbl \cup { [id |-> id, session_id |-> sessionId] }

\* DELETE FROM session_data without its WHERE clause
deleteSessionData_everyRow(tbl, id) == << >>

\* deleteSession: the four DELETE statements
deleteSessionContent(tbl, id) == { r \in tbl : r.session_id # id }

deleteSessionRow(tbl, id) == [i \in DOMAIN tbl \ {id} |-> tbl[i]]

deleteSessionData(tbl, id) ==
  [k \in { p \in DOMAIN tbl : p[1] # id } |-> tbl[k]]

deleteSessionDecisions(tbl, id) ==
  SelectSeq(tbl, LAMBDA d : d.session_id # id)

\* ------------------------------------------------------------------ manager
\* WorkflowManager.getNextStep
getNextStep(currentStep, route) ==
  CASE currentStep = "brief" -> "route_selection"
    [] currentStep = "route_selection" ->
         IF route = "A" THEN "route_a_upload" ELSE "route_b_research"
    [] currentStep = "route_a_upload" -> "content_review"
    [] currentStep = "content_review" -> "approach_selection_a"
    [] currentStep = "approach_selection_a" -> "arc_generation"
    [] currentStep = "arc_generation" -> "arc_review"
    [] currentStep = "arc_review" -> "matrix_generation"
    [] currentStep = "route_b_research" -> "approach_selection_b"
    [] currentStep = "approach_selection_b" -> "arc_generation"
    [] currentStep = "matrix_generation" -> "matrix_review"
    [] currentStep = "matrix_review" -> "sample_generation"
    [] currentStep = "sample_generation" -> "sample_validation"
    [] currentStep = "sample_validation" -> "batch_generation"
    [] currentStep = "batch_generation" -> "completed"
    [] currentStep = "completed" -> "completed"
    [] OTHER -> NULL

\* the step of a session before a call, NULL for an unknown id
StepOf(sid) ==
  IF sid \in DOMAIN workflow_sessions
  THEN workflow_sessions[sid].current_step ELSE NULL

\* the three tables as one value, and the tables after a call
Db == [ws |-> workflow_sessions, sd |-> session_data, hd |-> human_decisions]

Commit(db) ==
  /\ workflow_sessions' = db.ws
  /\ session_data' = db.sd
  /\ human_decisions' = db.hd

\* the effect of each manager method on the tables
doAdvanceToStep(db, sid, step) ==
  [db EXCEPT !.ws = updateSession(@, sid, [current_step |-> step])]

doSetRoute(db, sid, route) ==
  [db EXCEPT !.ws = updateSession(@, sid, [route |-> route]),
             !.sd = saveSessionData(@, sid, "route", JsString(route))]

doSaveStepData(db, sid, stepKey, data) ==
  [db EXCEPT !.sd = saveSessionData(@, sid, stepKey, data)]

\* recordDecision that also moves the session to the step after the gate
doRecordDecision_advancing(db, sid, step, decision, feedback) ==
  [db EXCEPT !.hd = saveDecision(@, sid, step, decision, feedback),
             !.ws = updateSession(@, sid, [current_step |-> getNextStep(step, NULL)])]

doRecordDecision(db, sid, step, decision, feedback) ==
  [db EXCEPT !.hd = saveDecision(@, sid, step, decision, feedback)]

doCompleteSession(db, sid) ==
  [db EXCEPT !.ws = updateSession(@, sid, [status |-> "completed",
                                           current_step |-> "completed"])]

\* createWorkflowSession
createWorkflowSession(clientName, industry) ==
  \E sessionId \in SessionIds \ generated :
    /\ generated' = generated \cup {sessionId}
    /\ workflow_sessions' =
         createSession(workflow_sessions, sessionId, clientName, industry)
    /\ last' = Call("createWorkflowSession", sessionId, NULL, NULL, "ok", NULL)
    /\ UNCHANGED << session_data, human_decisions, generated_content, others >>

\* getWorkflowSession: getSession throws for an unknown id
getWorkflowSession(sid) ==
  /\ last' = IF sid \in DOMAIN workflow_sessions
             THEN Call("getWorkflowSession", sid, NULL, NULL, "ok",
                       workflow_sessions[sid])
             ELSE Call("getWorkflowSession", sid, NULL, NULL,
                       "Session not found", NULL)
  /\ UNCHANGED << workflow_sessions, session_data, human_decisions, generated,
                    generated_content, others >>

\* the successors of a step in the fixed step graph: the forward edge under
\* the route and the retry edge of a gate
GraphSuccessors(step, route) ==
  CASE step = "brief" -> { "framework_selection" }
    [] step = "framework_selection" -> { "route_selection" }
    [] step = "route_selection" ->
         IF route = "A" THEN { "route_a_upload" }
         ELSE IF route = "B" THEN { "route_b_research" } ELSE {}
    [] step = "route_a_upload" -> { "content_review" }
    [] step = "content_review" -> { "approach_selection_a", "route_a_upload" }
    [] step = "approach_selection_a" -> { "arc_generation" }
    [] step = "arc_generation" -> { "arc_review" }
    [] step = "arc_review" -> { "matrix_generation" }
    [] step = "route_b_research" -> { "approach_selection_b" }
    [] step = "approach_selection_b" -> { "matrix_generation" }
    [] step = "matrix_generation" -> { "matrix_review" }
    [] step = "matrix_review" -> { "sample_generation", "matrix_generation" }
    [] step = "sample_generation" -> { "sample_validation" }
    [] step = "sample_validation" -> { "batch_generation", "sample_generation" }
    [] step = "batch_generation" -> { "completed" }
    [] OTHER -> {}

\* a legal successor: an edge of the graph or the step getNextStep names
LegalSuccessors(step, route) ==
  IF step = "completed" THEN {}
  ELSE GraphSuccessors(step, route) \cup ({ getNextStep(step, route) } \ { NULL })

\* the route of a session, NULL for an unknown id
RouteOf(sid) ==
  IF sid \in DOMAIN workflow_sessions THEN workflow_sessions[sid].route ELSE NULL

\* advanceToStep that refuses a step that is not a legal successor
advanceToStep_validating(sid, step) ==
  /\ workflow_sessions' =
       IF step \in LegalSuccessors(StepOf(sid), RouteOf(sid))
       THEN updateSession(workflow_sessions, sid, [current_step |-> step])
       ELSE workflow_sessions
  /\ last' = Call("advanceToStep", sid, step, StepOf(sid),
                  IF step \in LegalSuccessors(StepOf(sid), RouteOf(sid))
                  THEN "ok" ELSE "InvalidTransition", NULL)
  /\ UNCHANGED << session_data, human_decisions, generated, generated_content, others >>

\* advanceToStep that moves a session only while it is past its first step
advanceToStep_afterBrief(sid, step) ==
  /\ workflow_sessions' =
       IF StepOf(sid) = "brief" /\ step # getNextStep("brief", RouteOf(sid))
       THEN workflow_sessions
       ELSE updateSession(workflow_sessions, sid, [current_step |-> step])
  /\ last' = Call("advanceToStep", sid, step, StepOf(sid), "ok", NULL)
  /\ UNCHANGED << session_data, human_decisions, generated, generated_content, others >>

\* advanceToStep
advanceToStep(sid, step) ==
  /\ Commit(doAdvanceToStep(Db, sid, step))
  /\ last' = Call("advanceToStep", sid, step, StepOf(sid), "ok", NULL)
  /\ UNCHANGED << generated, generated_content, others >>

\* setRoute
setRoute(sid, route) ==
  /\ Commit(doSetRoute(Db, sid, route))
  /\ last' = Call("setRoute", sid, route, StepOf(sid), "ok", NULL)
  /\ UNCHANGED << generated, generated_content, others >>

\* the text of the row a call finds for a key, NULL without a row
TextOf(sid, stepKey) ==
  IF <<sid, stepKey>> \in DOMAIN session_data
  THEN session_data[<<sid, stepKey>>] ELSE NULL

\* saveStepData
saveStepData(sid, stepKey, data) ==
  /\ Commit(doSaveStepData(Db, sid, stepKey, data))
  /\ last' = Call("saveStepData", sid, stepKey, TextOf(sid, stepKey), "ok", data)
  /\ UNCHANGED << generated, generated_content, others >>

\* getStepData
getStepData(sid, stepKey) ==
  LET data == getSessionData(session_data, sid, stepKey)
  IN /\ last' = Call("getStepData", sid, stepKey, TextOf(sid, stepKey),
                     IF data.type = "throw" THEN "throw" ELSE "ok", data)
     /\ UNCHANGED << workflow_sessions, session_data, human_decisions, generated,
                    generated_content, others >>

\* recordDecision
recordDecision(sid, step, decision, feedback) ==
  /\ Len(human_decisions) < MaxDecisions
  /\ Commit(doRecordDecision(Db, sid, step, decision, feedback))
  /\ last' = Call("recordDecision", sid, step, NULL, "ok", decision)
  /\ UNCHANGED << generated, generated_content, others >>

\* completeSession
completeSession(sid) ==
  /\ Commit(doCompleteSession(Db, sid))
  /\ last' = Call("completeSession", sid, NULL, StepOf(sid), "ok", NULL)
  /\ UNCHANGED << generated, generated_content, others >>

\* deleteSession
deleteSession(sid) ==
  /\ workflow_sessions' = deleteSessionRow(workflow_sessions, sid)
  /\ session_data' = deleteSessionData(session_data, sid)
  /\ human_decisions' = deleteSessionDecisions(human_decisions, sid)
  /\ generated_content' = deleteSessionContent(generated_content, sid)
  /\ last' = Call("deleteSession", sid, NULL, StepOf(sid), "ok", NULL)
  /\ UNCHANGED << generated, others >>

\* ------------------------------------------------------------------ router
\* Each handler runs its manager calls in order inside one try block; a throw
\* is answered with status 500 and the calls already made stay in the tables.
\* res is the status of the response and val its nextStep.

\* the value getStepData gives a handler
Read(db, sid, stepKey) == getSessionData(db.sd, sid, stepKey)

\* room in the decision log for one more row
CanRecord == Len(human_decisions) < MaxDecisions

\* POST / : create a session, with or without a brief
PostSession(clientName, industry, brief) ==
  IF clientName = "" \/ industry = ""
  THEN /\ last' = Call("POST /", NULL, NULL, NULL, "400", NULL)
       /\ UNCHANGED << workflow_sessions, session_data, human_decisions, generated,
                    generated_content, others >>
  ELSE \E sessionId \in SessionIds \ generated :
         LET db0 == [Db EXCEPT !.ws = createSession(@, sessionId, clientName, industry)]
             db1 == IF Truthy(brief)
                    THEN doAdvanceToStep(doSaveStepData(db0, sessionId, "brief", brief),
                                         sessionId, "route_selection")
                    ELSE db0
         IN /\ generated' = generated \cup {sessionId}
            /\ Commit(db1)
            /\ last' = Call("POST /", sessionId, NULL, NULL, "200",
                            IF Truthy(brief) THEN "route_selection" ELSE "brief")
            /\ UNCHANGED << generated_content, others >>

\* POST /:sessionId/brief
PostBrief(sid, brief) ==
  /\ Commit(doAdvanceToStep(doSaveStepData(Db, sid, "brief", brief),
                            sid, "framework_selection"))
  /\ last' = Call("POST /brief", sid, NULL, StepOf(sid), "200", "framework_selection")
  /\ UNCHANGED << generated, generated_content, others >>

\* POST /:sessionId/route
PostRoute(sid, route) ==
  IF route \notin Routes
  THEN /\ last' = Call("POST /route", sid, route, StepOf(sid), "400", NULL)
       /\ UNCHANGED << workflow_sessions, session_data, human_decisions, generated,
                    generated_content, others >>
  ELSE LET nextStep == IF route = "A" THEN "route_a_upload" ELSE "route_b_research"
           db1 == doSetRoute(Db, sid, route)
           db2 == doRecordDecision(db1, sid, "route_selection", route, "")
           db3 == doAdvanceToStep(db2, sid, nextStep)
       IN /\ CanRecord
          /\ Commit(db3)
          /\ last' = Call("POST /route", sid, route, StepOf(sid), "200", nextStep)
          /\ UNCHANGED << generated, generated_content, others >>

\* POST /:sessionId/upload ; processFiles may throw before anything is saved
PostUpload(sid, files, throws) ==
  IF files = 0
  THEN /\ last' = Call("POST /upload", sid, NULL, StepOf(sid), "400", NULL)
       /\ UNCHANGED << workflow_sessions, session_data, human_decisions, generated,
                    generated_content, others >>
  ELSE IF throws
  THEN /\ last' = Call("POST /upload", sid, NULL, StepOf(sid), "500", NULL)
       /\ UNCHANGED << workflow_sessions, session_data, human_decisions, generated,
                    generated_content, others >>
  ELSE LET db1 == doSaveStepData(Db, sid, "uploadedFiles", FilesArray)
           db2 == doSaveStepData(db1, sid, "extractedContent", ContentText)
           db3 == doSaveStepData(db2, sid, "contentAnalysis", AnalysisObject)
           db4 == doAdvanceToStep(db3, sid, "content_review")
       IN /\ Commit(db4)
          /\ last' = Call("POST /upload", sid, NULL, StepOf(sid), "200", "content_review")
          /\ UNCHANGED << generated, generated_content, others >>

\* POST /:sessionId/content/approve
ContentApprove(sid, feedback) ==
  LET db1 == doRecordDecision(Db, sid, "content_review", "approve", feedback)
      db2 == doAdvanceToStep(db1, sid, "approach_selection_a")
  IN /\ CanRecord
     /\ Commit(db2)
     /\ last' = Call("POST /content/approve", sid, "approve", StepOf(sid), "200",
                     "approach_selection_a")
     /\ UNCHANGED << generated, generated_content, others >>

\* POST /:sessionId/content/reject
ContentReject(sid, feedback) ==
  LET db1 == doRecordDecision(Db, sid, "content_review", "reject", feedback)
      db2 == doAdvanceToStep(db1, sid, "route_a_upload")
  IN /\ CanRecord
     /\ Commit(db2)
     /\ last' = Call("POST /content/reject", sid, "reject", StepOf(sid), "200",
                     "route_a_upload")
     /\ UNCHANGED << generated, generated_content, others >>

\* the status of POST /:sessionId/matrix/generate before it saves anything:
\* 200 when the matrix is generated
MatrixGenerateStatus(sid, throws) ==
  IF sid \notin DOMAIN workflow_sessions THEN "500"
  ELSE IF ~Truthy(Read(Db, sid, "brief")) THEN "400"
  ELSE IF workflow_sessions[sid].route = "A"
       THEN IF ~Truthy(Read(Db, sid, "extractedContent")) THEN "400"
            ELSE IF throws THEN "500" ELSE "200"
  ELSE IF workflow_sessions[sid].route = "B"
       THEN IF ~Truthy(Read(Db, sid, "researchResults"))
               \/ ~Truthy(Read(Db, sid, "selectedApproach")) THEN "400"
            ELSE IF throws THEN "500" ELSE "200"
  ELSE "400"

\* POST /:sessionId/matrix/generate
MatrixGenerate(sid, throws) ==
  LET status == MatrixGenerateStatus(sid, throws)
      db1 == doSaveStepData(Db, sid, "programMatrix", MatrixObject)
      db2 == doAdvanceToStep(db1, sid, "matrix_review")
  IN /\ Commit(IF status = "200" THEN db2 ELSE Db)
     /\ last' = Call("POST /matrix/generate", sid, NULL, StepOf(sid), status,
                     IF status = "200" THEN "matrix_review" ELSE NULL)
     /\ UNCHANGED << generated, generated_content, others >>

\* POST /:sessionId/matrix/review
MatrixReview(sid, decision, feedback) ==
  LET db1 == doRecordDecision(Db, sid, "matrix_review", decision, feedback)
      db2 == IF decision = "approve"
             THEN doAdvanceToStep(db1, sid, "sample_generation") ELSE db1
  IN /\ CanRecord
     /\ Commit(db2)
     /\ last' = Call("POST /matrix/review", sid, decision, StepOf(sid), "200",
                     IF decision = "approve" THEN "sample_generation"
                     ELSE "matrix_generation")
     /\ UNCHANGED << generated, generated_content, others >>

\* POST /:sessionId/sample (deprecated, still routed)
PostSample(sid, sampleArticle) ==
  /\ Commit(doAdvanceToStep(doSaveStepData(Db, sid, "sampleArticle", sampleArticle),
                            sid, "sample_validation"))
  /\ last' = Call("POST /sample", sid, NULL, StepOf(sid), "200", "sample_validation")
  /\ UNCHANGED << generated, generated_content, others >>

\* POST /:sessionId/sample/validate
SampleValidate(sid, decision, feedback) ==
  LET db1 == doRecordDecision(Db, sid, "sample_validation", decision, feedback)
      db2 == IF decision = "approve"
             THEN doAdvanceToStep(db1, sid, "batch_generation") ELSE db1
  IN /\ CanRecord
     /\ Commit(db2)
     /\ last' = Call("POST /sample/validate", sid, decision, StepOf(sid), "200",
                     IF decision = "approve" THEN "batch_generation"
                     ELSE "sample_article")
     /\ UNCHANGED << generated, generated_content, others >>

\* POST /:sessionId/approach/select
ApproachSelect(sid, approach, feedback) ==
  IF approach = ""
  THEN /\ last' = Call("POST /approach/select", sid, approach, StepOf(sid), "400", NULL)
       /\ UNCHANGED << workflow_sessions, session_data, human_decisions, generated,
                    generated_content, others >>
  ELSE LET db1 == doSaveStepData(Db, sid, "selectedApproach", JsString(approach))
           db2 == doRecordDecision(db1, sid, "approach_selection_a", approach, feedback)
           db3 == doAdvanceToStep(db2, sid, "arc_generation")
       IN /\ CanRecord
          /\ Commit(db3)
          /\ last' = Call("POST /approach/select", sid, approach, StepOf(sid), "200",
                          "arc_generation")
          /\ UNCHANGED << generated, generated_content, others >>

\* a generation handler that saves its artifact before it looks at the keys
\* it needs
Generate_savesFirst(op, sid, needs, throws, stepKey, artifact, nextStep) ==
  LET status == IF \E k \in needs : ~Truthy(Read(Db, sid, k)) THEN "400"
                ELSE IF throws THEN "500" ELSE "200"
      db1 == doSaveStepData(Db, sid, stepKey, artifact)
      db2 == doAdvanceToStep(db1, sid, nextStep)
  IN /\ Commit(IF status = "200" THEN db2 ELSE db1)
     /\ last' = Call(op, sid, NULL, StepOf(sid), status,
                     IF status = "200" THEN nextStep ELSE NULL)
     /\ UNCHANGED << generated, generated_content, others >>

\* a generation handler: 400 when one of the keys it needs reads falsy, 500
\* when its generator throws, else it saves the artifact and advances
Generate(op, sid, needs, throws, stepKey, artifact, nextStep) ==
  LET status == IF \E k \in needs : ~Truthy(Read(Db, sid, k)) THEN "400"
                ELSE IF throws THEN "500" ELSE "200"
      db1 == doSaveStepData(Db, sid, stepKey, artifact)
      db2 == doAdvanceToStep(db1, sid, nextStep)
  IN /\ Commit(IF status = "200" THEN db2 ELSE Db)
     /\ last' = Call(op, sid, NULL, StepOf(sid), status,
                     IF status = "200" THEN nextStep ELSE NULL)
     /\ UNCHANGED << generated, generated_content, others >>

\* POST /:sessionId/arc/generate
ArcGenerate(sid, throws) ==
  Generate("POST /arc/generate", sid,
           { "brief", "extractedContent", "selectedApproach" }, throws,
           "learningArc", ArcObject, "arc_review")

\* POST /:sessionId/arc/approve
ArcApprove(sid, feedback) ==
  LET db1 == doRecordDecision(Db, sid, "arc_review", "approve", feedback)
      db2 == doAdvanceToStep(db1, sid, "matrix_generation")
  IN /\ CanRecord
     /\ Commit(db2)
     /\ last' = Call("POST /arc/approve", sid, "approve", StepOf(sid), "200",
                     "matrix_generation")
     /\ UNCHANGED << generated, generated_content, others >>

\* POST /:sessionId/sample/generate
SampleGenerate(sid, throws) ==
  Generate("POST /sample/generate", sid,
           { "brief", "programMatrix", "learningArc" }, throws,
           "sampleContent", SampleObject, "sample_validation")

\* POST /:sessionId/sample/approve
SampleApprove(sid, feedback) ==
  LET db1 == doRecordDecision(Db, sid, "sample_validation", "approve", feedback)
      db2 == doAdvanceToStep(db1, sid, "batch_generation")
  IN /\ CanRecord
     /\ Commit(db2)
     /\ last' = Call("POST /sample/approve", sid, "approve", StepOf(sid), "200",
                     "batch_generation")
     /\ UNCHANGED << generated, generated_content, others >>

\* POST /:sessionId/batch/generate
BatchGenerate(sid, throws) ==
  LET status == IF \E k \in { "brief", "programMatrix", "learningArc", "sampleContent" } :
                     ~Truthy(Read(Db, sid, k)) THEN "400"
                ELSE IF throws THEN "500" ELSE "200"
      db1 == doSaveStepData(Db, sid, "allContent", BatchObject)
      db2 == doCompleteSession(db1, sid)
  IN /\ Commit(IF status = "200" THEN db2 ELSE Db)
     /\ last' = Call("POST /batch/generate", sid, NULL, StepOf(sid), status,
                     IF status = "200" THEN "completed" ELSE NULL)
     /\ UNCHANGED << generated, generated_content, others >>

\* ------------------------------------------------------------------ awaits
\* A call in progress: every `await db.run(...)` of a manager method or a
\* handler is one step, and the steps of two calls in progress interleave.
\* A query is its name, two text arguments and one value argument.
Query(q, a, b, v) == [q |-> q, a |-> a, b |-> b, v |-> v]

\* the queries each call awaits, in the order of its code
createWorkflowSessionQueries(clientName, industry) ==
  << Query("createSession", clientName, industry, JsNull) >>

\* advanceToStep that does nothing
advanceToStepQueries_none(step) == << >>

advanceToStepQueries(step) ==
  << Query("updateSession", "current_step", step, JsNull) >>

setRouteQueries(route) ==
  << Query("updateSession", "route", route, JsNull),
     Query("saveSessionData", "route", "", JsString(route)) >>

saveStepDataQueries(stepKey, data) ==
  << Query("saveSessionData", stepKey, "", data) >>

recordDecisionQueries(step, decision) ==
  << Query("saveDecision", step, decision, JsNull) >>

saveContentQueries(id) ==
  << Query("saveContent", id, "", JsNull) >>

deleteSessionQueries ==
  << Query("DELETE generated_content", "", "", JsNull),
     Query("DELETE human_decisions", "", "", JsNull),
     Query("DELETE session_data", "", "", JsNull),
     Query("DELETE workflow_sessions", "", "", JsNull) >>

completeSessionQueries ==
  << Query("completeSession", "", "", JsNull) >>

ContentApproveQueries ==
  recordDecisionQueries("content_review", "approve")
    \o advanceToStepQueries("approach_selection_a")

ContentRejectQueries ==
  recordDecisionQueries("content_review", "reject")
    \o advanceToStepQueries("route_a_upload")

\* the calls of the end-to-end Route A flow up to the approach selection
ScenarioQueries ==
  createWorkflowSessionQueries("Acme", "Retail")
    \o setRouteQueries("A")
    \o advanceToStepQueries("route_a_upload")
    \o saveStepDataQueries("extractedContent", ContentText)
    \o advanceToStepQueries("content_review")
    \o recordDecisionQueries("content_review", "approve")
    \o advanceToStepQueries("approach_selection_a")

\* the outcome of one query: INSERT INTO workflow_sessions fails on a
\* primary key that exists
ExecRes(db, sid, q) ==
  IF q.q = "createSession" /\ sid \in DOMAIN db.ws THEN "SQLITE_CONSTRAINT" ELSE "ok"

\* the three tables after one query
Exec(db, sid, q) ==
  CASE q.q = "createSession" /\ sid \notin DOMAIN db.ws ->
         [db EXCEPT !.ws = createSession(@, sid, q.a, q.b)]
    [] q.q = "updateSession" ->
         [db EXCEPT !.ws = updateSession(@, sid, [f \in {q.a} |-> q.b])]
    [] q.q = "completeSession" -> doCompleteSession(db, sid)
    [] q.q = "saveSessionData" ->
         [db EXCEPT !.sd = saveSessionData(@, sid, q.a, q.v)]
    [] q.q = "saveDecision" ->
         [db EXCEPT !.hd = saveDecision(@, sid, q.a, q.b, "")]
    [] q.q = "DELETE human_decisions" ->
         [db EXCEPT !.hd = deleteSessionDecisions(@, sid)]
    [] q.q = "DELETE session_data" ->
         [db EXCEPT !.sd = deleteSessionData(@, sid)]
    [] q.q = "DELETE workflow_sessions" ->
         [db EXCEPT !.ws = deleteSessionRow(@, sid)]
    [] OTHER -> db

\* table generated_content after one query
ExecContent(tbl, sid, q) ==
  CASE q.q = "saveContent" -> saveContent(tbl, q.a, sid)
    [] q.q = "DELETE generated_content" -> deleteSessionContent(tbl, sid)
    [] OTHER -> tbl

\* the callers whose calls may overlap
Clients == { "c1", "c2" }

\* a client that has no call in progress
Idle(c) == inflight[c].todo = << >>

\* the ids createWorkflowSession has returned to its caller
Known ==
  generated \ { inflight[c].sid : c \in { d \in Clients : ~Idle(d) /\
                                            Head(inflight[d].todo).q = "createSession" } }

\* the saveDecision queries of the calls in progress
PendingDecisions ==
  LET n(c) == Len(SelectSeq(inflight[c].todo, LAMBDA q : q.q = "saveDecision"))
      sum[S \in SUBSET DOMAIN inflight] ==
        IF S = {} THEN 0
        ELSE LET c == CHOOSE x \in S : TRUE IN n(c) + sum[S \ {c}]
  IN sum[DOMAIN inflight]

\* the decisions a call will record
Recording(todo) == Len(SelectSeq(todo, LAMBDA q : q.q = "saveDecision"))

\* client c starts a call on an existing id
Begin(c, name, sid, todo) ==
  /\ Idle(c)
  /\ Len(human_decisions) + PendingDecisions + Recording(todo) <= MaxDecisions
  /\ inflight' = [inflight EXCEPT ![c] =
                    [name |-> name, sid |-> sid, todo |-> todo, res |-> "ok"]]
  /\ UNCHANGED << workflow_sessions, session_data, human_decisions, generated,
                  last, generated_content, prompt_templates, cache, services >>

\* client c starts a call that begins with generateId
BeginNew(c, name, todo) ==
  \E sessionId \in SessionIds \ generated :
    /\ Idle(c)
    /\ Len(human_decisions) + PendingDecisions + Recording(todo) <= MaxDecisions
    /\ generated' = generated \cup {sessionId}
    /\ inflight' = [inflight EXCEPT ![c] =
                      [name |-> name, sid |-> sessionId, todo |-> todo, res |-> "ok"]]
    /\ UNCHANGED << workflow_sessions, session_data, human_decisions,
                    last, generated_content, prompt_templates, cache, services >>

\* the next query of the call of client c runs; a query that fails ends
\* the call
Run(c) ==
  /\ inflight[c].todo # << >>
  /\ LET call == inflight[c]
         q == Head(call.todo)
         res == ExecRes(Db, call.sid, q)
     IN /\ Commit(Exec(Db, call.sid, q))
        /\ generated_content' = ExecContent(generated_content, call.sid, q)
        /\ inflight' = [inflight EXCEPT ![c] =
                          [@ EXCEPT !.todo = IF res = "ok" THEN Tail(@) ELSE << >>,
                                    !.res = res]]
        /\ last' = Call(q.q, call.sid, q.a, StepOf(call.sid), res, q.b)
  /\ UNCHANGED << generated, prompt_templates, cache, services >>

\* ------------------------------------------------------------------ templates
\* the categories of the enum the store is exercised with
PromptCategory == { "arc_generation", "sample_generation" }

\* getDefaultTemplates: the rows the store is seeded with
getDefaultTemplates ==
  << [id |-> "arc-gen-001", category |-> "arc_generation",
      template |-> "seed arc_generation", is_active |-> TRUE],
     [id |-> "sample-gen-001", category |-> "sample_generation",
      template |-> "seed sample_generation", is_active |-> TRUE] >>

\* the compiled-in default a generator hands to getPrompt
DefaultPrompt(category) == "DEFAULT " \o category

\* the ids and the texts of the requests
TemplateIds == { "arc-gen-001", "sample-gen-001", "custom-001" }
TemplateTexts == { "v1", "v2" }

\* the result of a SELECT that finds no row
NoTemplate == [id |-> NULL, category |-> NULL, template |-> NULL, is_active |-> FALSE]

\* createPromptTemplate: INSERT, is_active defaults to 1
createPromptTemplate(tbl, id, category, template) ==
  Append(tbl, [id |-> id, category |-> category, template |-> template,
               is_active |-> TRUE])

\* getPromptTemplate: the row with the id
getPromptTemplate(tbl, id) ==
  LET rows == SelectSeq(tbl, LAMBDA r : r.id = id)
  IN IF rows = << >> THEN NoTemplate ELSE rows[1]

\* getPromptTemplateByCategory: the newest active row of the category
getPromptTemplateByCategory(tbl, category) ==
  LET rows == SelectSeq(tbl, LAMBDA r : r.category = category /\ r.is_active)
  IN IF rows = << >> THEN NoTemplate ELSE rows[Len(rows)]

\* updatePromptTemplate: UPDATE ... SET template = ? WHERE id = ?
updatePromptTemplate(tbl, id, template) ==
  [i \in 1..Len(tbl) |->
     IF tbl[i].id = id THEN [tbl[i] EXCEPT !.template = template] ELSE tbl[i]]

\* DELETE FROM prompt_templates WHERE id = ?
deletePromptTemplate(tbl, id) == SelectSeq(tbl, LAMBDA r : r.id # id)

\* seedPromptTemplates: inserts the defaults into an empty table only
seedPromptTemplates(tbl) == IF Len(tbl) > 0 THEN tbl ELSE getDefaultTemplates

\* clearCache: one entry when a category is given, else every entry
clearCache(cch, category) ==
  [c \in DOMAIN cch |-> IF category = "" \/ c = category THEN NULL ELSE cch[c]]

\* the workflow tables and the calls in progress, left alone by the store
workflow == << workflow_sessions, session_data, human_decisions, generated,
               generated_content, inflight, services >>

\* PromptTemplateService.getPrompt; `fails` is a store read that throws
getPrompt(category, defaultPrompt, fails) ==
  LET hit == cache[category] # NULL
      template == getPromptTemplateByCategory(prompt_templates, category)
      found == ~fails /\ template.id # NULL /\ template.is_active
  IN /\ cache' = IF ~hit /\ found
                 THEN [cache EXCEPT ![category] = template.template] ELSE cache
     /\ last' = Call("getPrompt", NULL, category,
                     IF hit THEN "cache" ELSE IF fails THEN "error" ELSE "store",
                     "ok",
                     IF hit THEN cache[category]
                     ELSE IF found THEN template.template ELSE defaultPrompt)
     /\ UNCHANGED << prompt_templates, workflow >>

\* PromptTemplateService.savePrompt; arg is the category of the row written
savePrompt(id, name, category, template) ==
  LET existing == getPromptTemplate(prompt_templates, id)
  IN /\ prompt_templates' =
          IF existing.id # NULL
          THEN updatePromptTemplate(prompt_templates, id, template)
          ELSE createPromptTemplate(prompt_templates, id, category, template)
     /\ cache' = clearCache(cache, category)
     /\ last' = Call("savePrompt", id,
                     IF existing.id # NULL THEN existing.category ELSE category,
                     category, "ok", template)
     /\ UNCHANGED workflow

\* POST /api/prompts ; the INSERT throws on an id that exists
PostPrompts(id, name, category, template) ==
  LET status == IF id = "" \/ name = "" \/ category = "" \/ template = "" THEN "400"
                ELSE IF getPromptTemplate(prompt_templates, id).id # NULL THEN "500"
                ELSE "200"
  IN /\ prompt_templates' =
          IF status = "200"
          THEN createPromptTemplate(prompt_templates, id, category, template)
          ELSE prompt_templates
     /\ cache' = IF status = "200" THEN clearCache(cache, category) ELSE cache
     /\ last' = Call("POST /api/prompts", id, category, category, status, template)
     /\ UNCHANGED workflow

\* PUT /api/prompts/:id ; arg is the category of the row written
PutPrompt(id, template, category) ==
  LET existing == getPromptTemplate(prompt_templates, id)
      status == IF template = "" THEN "400"
                ELSE IF existing.id = NULL THEN "404" ELSE "200"
  IN /\ prompt_templates' =
          IF status = "200"
          THEN updatePromptTemplate(prompt_templates, id, template)
          ELSE prompt_templates
     /\ cache' = IF status = "200" THEN clearCache(cache, category) ELSE cache
     /\ last' = Call("PUT /api/prompts/:id", id, existing.category, category,
                     status, template)
     /\ UNCHANGED workflow

\* POST /api/prompts/cache/clear
PostCacheClear(category) ==
  /\ cache' = clearCache(cache, category)
  /\ last' = Call("POST /api/prompts/cache/clear", NULL, category, category, "200", NULL)
  /\ UNCHANGED << prompt_templates, workflow >>

\* POST /api/prompts/:id/reset : the first of the two handlers registered
\* for the path answers every request
PostReset(id) ==
  LET existing == getPromptTemplate(prompt_templates, id)
      status == IF existing.id = NULL THEN "404" ELSE "200"
  IN /\ prompt_templates' =
          IF status = "200"
          THEN seedPromptTemplates(deletePromptTemplate(prompt_templates, id))
          ELSE prompt_templates
     /\ cache' = IF status = "200" THEN clearCache(cache, existing.category) ELSE cache
     /\ last' = Call("POST /api/prompts/:id/reset", id, existing.category, NULL,
                     status, NULL)
     /\ UNCHANGED workflow

\* POST /api/prompts/reset
PostResetAll(confirm) ==
  LET status == IF confirm # "RESET_ALL_PROMPTS" THEN "400" ELSE "200"
  IN /\ prompt_templates' =
          IF status = "200" THEN seedPromptTemplates(<< >>) ELSE prompt_templates
     /\ cache' = IF status = "200" THEN clearCache(cache, "") ELSE cache
     /\ last' = Call("POST /api/prompts/reset", NULL, NULL, NULL, status, NULL)
     /\ UNCHANGED workflow

\* ------------------------------------------------------------------ template calls in progress
\* getPrompt after a cache miss: the SELECT runs on the database thread and
\* its result reaches the call in a later turn of the event loop
getPromptSteps(category, defaultPrompt) ==
  << Query("getPromptTemplateByCategory", category, defaultPrompt, NULL),
     Query("cache.set", category, defaultPrompt, NULL) >>

\* savePrompt: the SELECT by id, the UPDATE or INSERT, then clearCache
savePromptSteps(id, name, category, template) ==
  << Query("getPromptTemplate", id, category, template),
     Query("writePromptTemplate", id, category, template),
     Query("clearCache", id, category, template) >>

\* the result of a store read that threw
Threw == "<threw>"

\* every caller is between calls
AllIdle == \A c \in Clients : Idle(c)

\* client c calls getPrompt: a cache hit returns at once
getPromptBegin(c, category, defaultPrompt) ==
  /\ Idle(c)
  /\ IF cache[category] # NULL
     THEN /\ last' = Call("getPrompt", NULL, category, "cache", "ok", cache[category])
          /\ UNCHANGED inflight
     ELSE /\ inflight' = [inflight EXCEPT ![c] =
                            [name |-> "getPrompt", sid |-> category,
                             todo |-> getPromptSteps(category, defaultPrompt),
                             res |-> NULL]]
          /\ UNCHANGED last
  /\ UNCHANGED << workflow_sessions, session_data, human_decisions, generated,
                  generated_content, prompt_templates, cache, services >>

\* client c calls savePrompt
savePromptBegin(c, id, name, category, template) ==
  /\ Idle(c)
  /\ inflight' = [inflight EXCEPT ![c] =
                    [name |-> "savePrompt", sid |-> id,
                     todo |-> savePromptSteps(id, name, category, template),
                     res |-> NULL]]
  /\ UNCHANGED << workflow_sessions, session_data, human_decisions, generated,
                  last, generated_content, prompt_templates, cache, services >>

\* the call of client c goes on to its next await; `fails` is a store read
\* that throws
PromptStep(c, fails) ==
  /\ ~Idle(c)
  /\ inflight[c].name \in { "getPrompt", "savePrompt" }
  /\ LET call == inflight[c]
         q == Head(call.todo)
         template == getPromptTemplateByCategory(prompt_templates, q.a)
         existing == getPromptTemplate(prompt_templates, q.a)
         next(res) == [inflight EXCEPT ![c] = [@ EXCEPT !.todo = Tail(@), !.res = res]]
     IN CASE q.q = "getPromptTemplateByCategory" ->
               /\ inflight' = next(IF fails THEN Threw
                                   ELSE IF template.id # NULL /\ template.is_active
                                   THEN template.template ELSE NULL)
               /\ UNCHANGED << prompt_templates, cache, last >>
          [] q.q = "cache.set" ->
               /\ ~fails
               /\ inflight' = next(call.res)
               /\ cache' = IF call.res \in { NULL, Threw } THEN cache
                           ELSE [cache EXCEPT ![q.a] = call.res]
               /\ last' = Call("getPrompt", NULL, q.a,
                               IF call.res = Threw THEN "error" ELSE "store", "ok",
                               IF call.res \in { NULL, Threw } THEN q.b ELSE call.res)
               /\ UNCHANGED prompt_templates
          [] q.q = "getPromptTemplate" ->
               /\ ~fails
               /\ inflight' = next(existing.id)
               /\ UNCHANGED << prompt_templates, cache, last >>
          [] q.q = "writePromptTemplate" ->
               /\ ~fails
               /\ inflight' = next(call.res)
               /\ prompt_templates' =
                    IF call.res # NULL
                    THEN updatePromptTemplate(prompt_templates, q.a, q.v)
                    ELSE createPromptTemplate(prompt_templates, q.a, q.b, q.v)
               /\ UNCHANGED << cache, last >>
          [] q.q = "clearCache" ->
               /\ ~fails
               /\ inflight' = next(call.res)
               /\ cache' = clearCache(cache, q.b)
               /\ last' = Call("savePrompt", q.a, q.b, q.b, "ok", q.v)
               /\ UNCHANGED prompt_templates
  /\ UNCHANGED << workflow_sessions, session_data, human_decisions, generated,
                  generated_content, services >>

\* ------------------------------------------------------------------ rendering
\* A text is a sequence of characters; the two braces that open and close a
\* placeholder are one character each ("{{", "}}").
\* the most pieces a template is made of
MaxPieces == 3

\* the names of the placeholders and of the variables
Names == { "a", "b" }

\* {{name}}
Placeholder(name) == << "{{", name, "}}" >>

\* what a template is made of
Pieces == { Placeholder(n) : n \in Names } \cup { << "x" >>, << "$" >> }

RECURSIVE TemplatesOf(_)
TemplatesOf(n) ==
  IF n = 0 THEN { << >> }
  ELSE LET shorter == TemplatesOf(n - 1)
       IN shorter \cup { t \o p : t \in shorter, p \in Pieces }

Templates == TemplatesOf(MaxPieces)

\* the values of the variables: text of the brief and of the uploaded
\* content, which may hold a dollar sign or a placeholder
ValueChars == { "$", "&", "x" }
Values ==
  { << >> } \cup { << c >> : c \in ValueChars }
            \cup { << c, d >> : c \in ValueChars, d \in ValueChars }
            \cup { Placeholder("b") }

\* Object.entries(variables): the entries in insertion order
VariableMaps ==
  { << >> }
    \cup { << [key |-> k, value |-> v] >> : k \in Names, v \in Values }
    \cup UNION { { << [key |-> k, value |-> v], [key |-> l, value |-> w] >> :
                      l \in Names \ {k}, v \in Values, w \in Values } :
                  k \in Names }

\* no call of a service has been made
NoServiceCall ==
  /\ render = [op |-> "idle", template |-> << >>, variables |-> << >>,
               out |-> << >>, res |-> "ok"]
  /\ qc = [op |-> "idle"]
  /\ unit = [op |-> "idle"]

\* the pattern matches the text at position i
MatchesAt(text, pattern, i) ==
  /\ i + Len(pattern) - 1 <= Len(text)
  /\ SubSeq(text, i, i + Len(pattern) - 1) = pattern

\* GetSubstitution of String.prototype.replace: $$ stands for a dollar sign
\* and $& for the matched text
RECURSIVE GetSubstitution(_, _, _)
GetSubstitution(matched, replacement, i) ==
  IF i > Len(replacement) THEN << >>
  ELSE IF replacement[i] = "$" /\ i < Len(replacement) /\ replacement[i + 1] = "$"
  THEN << "$" >> \o GetSubstitution(matched, replacement, i + 2)
  ELSE IF replacement[i] = "$" /\ i < Len(replacement) /\ replacement[i + 1] = "&"
  THEN matched \o GetSubstitution(matched, replacement, i + 2)
  ELSE << replacement[i] >> \o GetSubstitution(matched, replacement, i + 1)

\* a replace that takes every placeholder for the pattern
RECURSIVE replace_anyName(_, _, _, _)
replace_anyName(text, pattern, replacement, i) ==
  IF i > Len(text) THEN << >>
  ELSE IF \E n \in Names : MatchesAt(text, Placeholder(n), i)
  THEN GetSubstitution(SubSeq(text, i, i + 2), replacement, 1)
         \o replace_anyName(text, pattern, replacement, i + 3)
  ELSE << text[i] >> \o replace_anyName(text, pattern, replacement, i + 1)

\* result.replace(regex, String(value)) with the flag g, from position i on
RECURSIVE replace(_, _, _, _)
replace(text, pattern, replacement, i) ==
  IF i > Len(text) THEN << >>
  ELSE IF MatchesAt(text, pattern, i)
  THEN GetSubstitution(pattern, replacement, 1)
         \o replace(text, pattern, replacement, i + Len(pattern))
  ELSE << text[i] >> \o replace(text, pattern, replacement, i + 1)

\* buildPrompt: one replace per entry of the map, each on the result of the
\* one before
RECURSIVE buildPrompt(_, _)
buildPrompt(template, variables) ==
  IF variables = << >> THEN template
  ELSE buildPrompt(replace(template, Placeholder(Head(variables).key),
                           Head(variables).value, 1),
                   Tail(variables))

\* promptTemplateService.buildPrompt(template, variables)
BuildPrompt ==
  /\ render.op = "input"
  /\ render' = [render EXCEPT !.op = "buildPrompt",
                              !.out = buildPrompt(render.template, render.variables),
                              !.res = "ok"]
  /\ UNCHANGED << workflow_sessions, session_data, human_decisions, generated, last,
                  generated_content, prompt_templates, cache, inflight, qc, unit, jobs >>

\* ------------------------------------------------------------------ quality control
\* JavaScript values of the fields of a scoring response
JsNum(n) == [type |-> "number", num |-> n]
JsArray(n) == [type |-> "array", num |-> n]
JsUndefined == [type |-> "undefined", num |-> 0]
JsNaN == [type |-> "NaN", num |-> 0]

\* the scores a scoring response carries
Scores == { 0, 49, 50, 100 }

\* the object chat parses from a scoring response: every field may be
\* absent, and the object is {} when the response has no content
Responses ==
  [ok : { "true", "false", "undefined" },
   patches : { JsUndefined, JsArray(0), JsArray(1) },
   score : { JsUndefined } \cup { JsNum(n) : n \in Scores }]

EmptyObject == [ok |-> "undefined", patches |-> JsUndefined, score |-> JsUndefined]

\* a repair call that throws, and the exception leaving a function
Thrown == "<throws>"

\* a scoring call that throws (network error, JSON.parse error)
Throws == [ok |-> Thrown, patches |-> JsUndefined, score |-> JsUndefined]

\* the artifact handed in and the one the repair call returns
Original == "original"
Revised == "revised"

ArtifactTypes == { "article", "video", "quiz", "exercise" }

\* the result of qcAndFix and the calls of the service it made
QcResult(calls, content, score, res) ==
  [calls |-> calls, content |-> content, score |-> score, res |-> res]

\* the repair call: prose for the texts, chat for the structured artifacts
FixCall(type) == IF type \in { "article", "video" } THEN "prose FIX" ELSE "chat FIX"

\* the statements of qcAndFix shared by the two routers; a call that throws
\* ends them
qcAndFixBody(type, qc1, fixed, qc2) ==
  IF qc1 = Throws THEN QcResult(<< "chat QC" >>, NULL, JsUndefined, Thrown)
  ELSE IF qc1.ok # "true" /\ qc1.patches.type = "array" /\ qc1.patches.num > 0
  THEN IF fixed = Thrown
       THEN QcResult(<< "chat QC", FixCall(type) >>, NULL, JsUndefined, Thrown)
       ELSE IF qc2 = Throws
       THEN QcResult(<< "chat QC", FixCall(type), "chat QC" >>, NULL, JsUndefined, Thrown)
       ELSE QcResult(<< "chat QC", FixCall(type), "chat QC" >>, fixed, qc2.score, "ok")
  ELSE QcResult(<< "chat QC" >>, Original, qc1.score, "ok")

\* qcAndFix that repairs again until the score is accepted
qcAndFix_repairsTwice(type, qc1, fixed, qc2) ==
  LET r == qcAndFixBody(type, qc1, fixed, qc2)
  IN IF r.res = "ok" /\ Len(r.calls) = 3 /\ qc2.ok # "true"
     THEN [r EXCEPT !.calls = @ \o << FixCall(type), "chat QC" >>]
     ELSE r

\* qcAndFix that keeps the better of the two artifacts
qcAndFix_keepsBetter(type, qc1, fixed, qc2) ==
  LET r == qcAndFixBody(type, qc1, fixed, qc2)
  IN IF /\ r.res = "ok" /\ Len(r.calls) = 3
        /\ qc1.score.type = "number" /\ qc2.score.type = "number"
        /\ qc2.score.num < qc1.score.num
     THEN [r EXCEPT !.content = Original, !.score = qc1.score]
     ELSE r

\* qcAndFix that repairs whenever patches are proposed
qcAndFix_ignoresOk(type, qc1, fixed, qc2) ==
  IF qc1 # Throws /\ qc1.ok = "true"
  THEN qcAndFixBody(type, [qc1 EXCEPT !.ok = "false"], fixed, qc2)
  ELSE qcAndFixBody(type, qc1, fixed, qc2)

\* qcAndFix of routes/program-with-progress: the catch returns the artifact
\* handed in with the score 50
qcAndFix(type, qc1, fixed, qc2) ==
  LET r == qcAndFixBody(type, qc1, fixed, qc2)
  IN IF r.res = Thrown THEN QcResult(r.calls, Original, JsNum(50), "ok") ELSE r

\* qcAndFix of routes/session: no try, the failure goes to the caller
sessionQcAndFix(type, qc1, fixed, qc2) == qcAndFixBody(type, qc1, fixed, qc2)

\* the program router runs qcAndFix on an artifact
QcAndFix ==
  /\ qc.op = "input"
  /\ qc' = [qc EXCEPT !.op = "qcAndFix",
                      !.out = qcAndFix(qc.type, qc.qc1, qc.fixed, qc.qc2)]
  /\ UNCHANGED << workflow_sessions, session_data, human_decisions, generated, last,
                  generated_content, prompt_templates, cache, inflight, render, unit, jobs >>

\* the session router runs its qcAndFix on an artifact
SessionQcAndFix ==
  /\ qc.op = "input"
  /\ qc' = [qc EXCEPT !.op = "sessionQcAndFix",
                      !.out = sessionQcAndFix(qc.type, qc.qc1, qc.fixed, qc.qc2)]
  /\ UNCHANGED << workflow_sessions, session_data, human_decisions, generated, last,
                  generated_content, prompt_templates, cache, inflight, render, unit, jobs >>

\* ------------------------------------------------------------------ unit records
\* the artifacts of a unit, in the order they are checked
Artifacts == << "article", "video", "quiz", "exercise" >>

\* what the services answer while one artifact is checked
Stub(qc1, fixed, qc2) == [qc1 |-> qc1, fixed |-> fixed, qc2 |-> qc2]

\* a scoring response that accepts with a score, and one that asks for a repair
Accepts(n) == [ok |-> "true", patches |-> JsArray(0), score |-> JsNum(n)]
Rejects(n) == [ok |-> "false", patches |-> JsArray(1), score |-> JsNum(n)]

\* the answers explored per artifact: accepted with each score, repaired and
\* scored again, an empty object, a call that throws
Stubs ==
  { Stub(Accepts(n), Revised, Accepts(n)) : n \in Scores }
    \cup { Stub(Rejects(0), Revised, Rejects(49)),
           Stub(EmptyObject, Revised, EmptyObject),
           Stub(Throws, Revised, Accepts(100)) }

\* a + b of JavaScript: a number only when both are numbers
JsAdd(a, b) ==
  IF a.type = "number" /\ b.type = "number" THEN JsNum(a.num + b.num) ELSE JsNaN

\* Math.round(x / 4) for x >= 0: the nearest integer, a half rounded up
RoundQuarter(x) == IF x.type = "number" THEN JsNum((2 * x.num + 4) \div 8) ELSE JsNaN

\* Math.round((as + ss + qs + es) / 4)
qcScore(as, ss, qs, es) == RoundQuarter(JsAdd(JsAdd(JsAdd(as, ss), qs), es))

\* the record built from the four results of qcAndFix
UnitRecord(op, r) ==
  [unit EXCEPT !.op = op, !.res = "ok",
               !.contents = [i \in 1..4 |-> r[i].content],
               !.scores = [i \in 1..4 |-> r[i].score],
               !.qcScore = qcScore(r[1].score, r[2].score, r[3].score, r[4].score)]

\* processProgram, one session: a generator that throws leaves the minimal
\* record with qcScore 0
ProcessSession ==
  /\ unit.op = "input"
  /\ LET r == [i \in 1..4 |->
                 qcAndFix(Artifacts[i], unit.stubs[i].qc1, unit.stubs[i].fixed,
                          unit.stubs[i].qc2)]
     IN unit' = IF unit.generatorFails
                THEN [unit EXCEPT !.op = "processProgram", !.res = "failed",
                                  !.qcScore = JsNum(0)]
                ELSE UnitRecord("processProgram", r)
  /\ UNCHANGED << workflow_sessions, session_data, human_decisions, generated, last,
                  generated_content, prompt_templates, cache, inflight, render, qc, jobs >>

\* POST /api/programs/:id/rerun-qc on a stored record
RerunQc ==
  /\ unit.op = "input"
  /\ LET r == [i \in 1..4 |->
                 qcAndFix(Artifacts[i], unit.stubs[i].qc1, unit.stubs[i].fixed,
                          unit.stubs[i].qc2)]
     IN unit' = UnitRecord("rerun-qc", r)
  /\ UNCHANGED << workflow_sessions, session_data, human_decisions, generated, last,
                  generated_content, prompt_templates, cache, inflight, render, qc, jobs >>

\* POST /api/sessions/:id/generate on a stored record: a generator or a
\* qcAndFix that throws answers 400 and stores nothing
SessionGenerate ==
  /\ unit.op = "input"
  /\ LET r == [i \in 1..4 |->
                 sessionQcAndFix(Artifacts[i], unit.stubs[i].qc1, unit.stubs[i].fixed,
                                 unit.stubs[i].qc2)]
     IN unit' = IF unit.generatorFails \/ \E i \in 1..4 : r[i].res = Thrown
                THEN [unit EXCEPT !.op = "generate", !.res = "400"]
                ELSE UnitRecord("generate", r)
  /\ UNCHANGED << workflow_sessions, session_data, human_decisions, generated, last,
                  generated_content, prompt_templates, cache, inflight, render, qc, jobs >>

\* ------------------------------------------------------------------ progress streams
\* the job ids of the progress requests and the connections that make them
JobIds == { "j1", "j2" }
Connections == { "k1", "k2" }

\* the most sendProgress calls explored per job
MaxEvents == 2

\* what is written to a stream
Event(jobId, n, type) == [jobId |-> jobId, n |-> n, type |-> type]

\* a connection that has not been made yet
NoConnection ==
  [state |-> "none", jobId |-> NULL, since |-> 0, nth |-> 0, received |-> << >>]

\* no run of processProgram and none of generateAllSessions
NoRun ==
  /\ job = [pc |-> "idle"]
  /\ batch = [op |-> "idle"]

\* no progress request and no job so far
NoJob ==
  /\ progressStreams = [j \in JobIds |-> NULL]
  /\ connections = [k \in Connections |-> NoConnection]
  /\ events = [j \in JobIds |-> 0]
  /\ NoRun

\* sendProgress that writes to every open connection of the job
sendProgress_toAllOpen(streams, conns, jobId, data) ==
  [k \in DOMAIN conns |->
     IF conns[k].state = "open" /\ conns[k].jobId = jobId
     THEN [conns[k] EXCEPT !.received = Append(@, data)]
     ELSE conns[k]]

\* sendProgress: a write to the stream registered for the job, if there is one
sendProgress(streams, conns, jobId, data) ==
  LET stream == streams[jobId]
  IN IF stream # NULL
     THEN [conns EXCEPT ![stream].received = Append(@, data)]
     ELSE conns

\* the close handler of a progress request: progressStreams.delete(jobId)
closeDelete(streams, k, jobId) == [streams EXCEPT ![jobId] = NULL]

\* GET /progress/:jobId: the stream is registered and written the connected
\* message; since is the number of events of the job so far, nth the
\* position of the request among the progress requests
GetProgress(k, jobId) ==
  /\ connections[k].state = "none"
  /\ progressStreams' = [progressStreams EXCEPT ![jobId] = k]
  /\ connections' = [connections EXCEPT ![k] =
                       [state |-> "open", jobId |-> jobId, since |-> events[jobId],
                        nth |-> 1 + Cardinality({ c \in Connections :
                                                   connections[c].state # "none" }),
                        received |-> << Event(jobId, 0, "connected") >>]]
  /\ UNCHANGED << workflow_sessions, session_data, human_decisions, generated, last,
                  generated_content, prompt_templates, cache, inflight,
                  render, qc, unit, events, job, batch >>

\* the client of a progress request disconnects
CloseProgress(k) ==
  /\ connections[k].state = "open"
  /\ progressStreams' = closeDelete(progressStreams, k, connections[k].jobId)
  /\ connections' = [connections EXCEPT ![k].state = "closed"]
  /\ UNCHANGED << workflow_sessions, session_data, human_decisions, generated, last,
                  generated_content, prompt_templates, cache, inflight,
                  render, qc, unit, events, job, batch >>

\* a job reports its progress
SendProgress(jobId, type) ==
  /\ events[jobId] < MaxEvents
  /\ events' = [events EXCEPT ![jobId] = @ + 1]
  /\ connections' = sendProgress(progressStreams, connections, jobId,
                                 Event(jobId, events[jobId] + 1, type))
  /\ UNCHANGED << workflow_sessions, session_data, human_decisions, generated, last,
                  generated_content, prompt_templates, cache, inflight,
                  render, qc, unit, progressStreams, job, batch >>

\* ------------------------------------------------------------------ batch jobs
\* the most units (sessions of the matrix) a job is given
MaxUnits == 2

\* the units of a job: for each unit whether its generation throws
UnitPlans == UNION { [1..n -> BOOLEAN] : n \in 0..MaxUnits }

\* the awaited agent call of processProgram that throws outside the units
Stages == { "none", "brief", "matrix", "sourcing", "packager" }

\* the error message of a failed generation
ErrorMessage == "generation failed"

\* the summary of a job that has none yet
NoSummary ==
  [success |-> FALSE, totalSessions |-> JsUndefined,
   completedSessions |-> JsUndefined, failedSessions |-> JsUndefined]

\* sendProgress that throws without a registered stream
sendProgressThrows_unsubscribed(streams, jobId) == streams[jobId] = NULL

\* stream.write and the lookup of sendProgress do not throw
sendProgressThrows(streams, jobId) == FALSE

\* the sendProgress calls a job makes in a row
RECURSIVE sendAll(_, _, _, _, _)
sendAll(streams, conns, jobId, n, types) ==
  IF types = << >> THEN conns
  ELSE sendAll(streams,
               sendProgress(streams, conns, jobId, Event(jobId, n + 1, Head(types))),
               jobId, n + 1, Tail(types))

\* the record of a unit: of the catch of the session loop when its
\* generation threw, of the try otherwise
SessionRecord(i, failed) ==
  [unit |-> i, error |-> IF failed THEN ErrorMessage ELSE NULL,
   qcScore |-> IF failed THEN 0 ELSE 100]

\* results.filter(...).length
CountOf(results, failed) ==
  Len(SelectSeq(results, LAMBDA r : (r.error # NULL) = failed))

\* the summary of the complete event
CompleteSummary(results) ==
  [success |-> TRUE, totalSessions |-> JsNum(Len(results)),
   completedSessions |-> JsNum(CountOf(results, FALSE)),
   failedSessions |-> JsNum(CountOf(results, TRUE))]

\* POST /api/programs: the job id is answered and processProgram runs up to
\* its first await
PostPrograms(units, failsAt) ==
  /\ job.pc = "idle"
  /\ LET jobId == "j1"
         throws == sendProgressThrows(progressStreams, jobId)
     IN /\ job' = [pc |-> IF throws THEN "failed" ELSE "brief", jobId |-> jobId,
                   units |-> units, failsAt |-> failsAt, results |-> << >>,
                   summary |-> NoSummary]
        /\ connections' = sendAll(progressStreams, connections, jobId, events[jobId],
                                  << "step 1 starting" >>)
        /\ events' = [events EXCEPT ![jobId] = @ + 1]
  /\ UNCHANGED << workflow_sessions, session_data, human_decisions, generated, last,
                  generated_content, prompt_templates, cache, inflight,
                  render, qc, unit, progressStreams, batch >>

\* processProgram from one await to the next; an agent call that throws, or
\* a sendProgress that throws, leads to the catch, which reports the error
ProcessProgram ==
  /\ job.pc \in { "brief", "matrix", "sourcing", "unit", "packager" }
  /\ LET jobId == job.jobId
         throws == job.failsAt = job.pc \/ sendProgressThrows(progressStreams, jobId)
         i == Len(job.results) + 1
         afterUnits(n) == IF n >= Len(job.units) THEN "packager" ELSE "unit"
         types == IF throws /\ job.pc # "unit" THEN << "error" >>
                  ELSE CASE job.pc = "brief" -> << "step 1 completed", "step 2 starting" >>
                         [] job.pc = "matrix" -> << "step 2 completed" >>
                         [] job.pc = "packager" -> << "complete" >>
                         [] OTHER -> << >>
     IN /\ job' =
             IF job.pc = "unit"
             THEN [job EXCEPT !.results = Append(@, SessionRecord(i, job.units[i])),
                              !.pc = afterUnits(i)]
             ELSE IF throws THEN [job EXCEPT !.pc = "failed"]
             ELSE CASE job.pc = "brief" -> [job EXCEPT !.pc = "matrix"]
                    [] job.pc = "matrix" -> [job EXCEPT !.pc = "sourcing"]
                    [] job.pc = "sourcing" -> [job EXCEPT !.pc = afterUnits(0)]
                    [] job.pc = "packager" ->
                         [job EXCEPT !.pc = "completed",
                                     !.summary = CompleteSummary(job.results)]
        /\ connections' = sendAll(progressStreams, connections, jobId, events[jobId],
                                  types)
        /\ events' = [events EXCEPT ![jobId] = @ + Len(types)]
  /\ UNCHANGED << workflow_sessions, session_data, human_decisions, generated, last,
                  generated_content, prompt_templates, cache, inflight,
                  render, qc, unit, progressStreams, batch >>

\* the content of a session of generateAllSessions: the first session is the
\* approved sample, a later one is generated, or the fallback when its
\* generation threw
SessionContent(i, failed) ==
  [unit |-> i,
   content |-> IF i = 1 THEN "approved sample"
               ELSE IF failed THEN "fallback" ELSE "generated",
   error |-> NULL]

\* the most sessions the program matrix of a workflow session holds
MaxSessions == 4

\* the sessions of a program matrix: for each whether its generation throws
SessionPlans == UNION { [1..n -> BOOLEAN] : n \in 0..MaxSessions }

\* POST /:sessionId/batch/generate up to the first generation awaited by
\* BatchGenerator.generateAllSessions
BatchGenerateBegin(units) ==
  /\ batch.op = "idle"
  /\ batch' = [op |-> "generating", units |-> units, results |-> << >>,
               summary |-> NoSummary]
  /\ UNCHANGED << workflow_sessions, session_data, human_decisions, generated, last,
                  generated_content, prompt_templates, cache, inflight,
                  render, qc, unit, progressStreams, connections, events, job >>

\* one turn of the loop of generateAllSessions: the content of the session is
\* pushed, or the fallback content when its generation threw
GenerateSession ==
  /\ batch.op = "generating"
  /\ Len(batch.results) < Len(batch.units)
  /\ LET i == Len(batch.results) + 1
     IN batch' = [batch EXCEPT !.results = Append(@, SessionContent(i, batch.units[i]))]
  /\ UNCHANGED << workflow_sessions, session_data, human_decisions, generated, last,
                  generated_content, prompt_templates, cache, inflight,
                  render, qc, unit, progressStreams, connections, events, job >>

\* generateAllSessions returns and POST /:sessionId/batch/generate answers
BatchGenerateEnd ==
  /\ batch.op = "generating"
  /\ Len(batch.results) = Len(batch.units)
  /\ batch' = [batch EXCEPT !.op = "answered",
                            !.summary = [success |-> TRUE,
                                         totalSessions |-> JsNum(Len(batch.results)),
                                         completedSessions |-> JsUndefined,
                                         failedSessions |-> JsUndefined]]
  /\ UNCHANGED << workflow_sessions, session_data, human_decisions, generated, last,
                  generated_content, prompt_templates, cache, inflight,
                  render, qc, unit, progressStreams, connections, events, job >>

\* ------------------------------------------------------------------ system
Init ==
  /\ workflow_sessions = << >>
  /\ session_data = << >>
  /\ human_decisions = << >>
  /\ generated = {}
  /\ last = Call("init", NULL, NULL, NULL, "ok", NULL)
  /\ generated_content = {}
  /\ prompt_templates = << >>
  /\ cache = [c \in PromptCategory |-> NULL]
  /\ NoServiceCall
  /\ NoJob
  /\ inflight = [c \in Clients |->
                   [name |-> "idle", sid |-> NULL, todo |-> << >>, res |-> "ok"]]

\* the keys and decisions a caller of the manager uses
DataKeys == { "brief", "learningArc" }
DecisionSteps == { "content_review" }
Decisions == { "approve", "reject" }

\* the manager driven by an arbitrary caller
Next ==
  \/ \E c \in ClientNames, i \in Industries : createWorkflowSession(c, i)
  \/ \E sid \in generated : getWorkflowSession(sid)
  \/ \E sid \in generated, step \in StepNames : advanceToStep(sid, step)
  \/ \E sid \in generated, route \in Routes : setRoute(sid, route)
  \/ \E sid \in generated, k \in DataKeys : saveStepData(sid, k, BriefObject)
  \/ \E sid \in generated, k \in DataKeys \cup {"route"} : getStepData(sid, k)
  \/ \E sid \in generated, s \in DecisionSteps, d \in Decisions :
       recordDecision(sid, s, d, "")
  \/ \E sid \in generated : completeSession(sid)
  \/ \E sid \in generated : deleteSession(sid)

Spec == Init /\ [][Next]_vars

\* the step data of a session written and read back with every kind of value
NextData ==
  \/ \E c \in ClientNames, i \in Industries : createWorkflowSession(c, i)
  \/ \E sid \in generated, k \in DataKeys, v \in JsValues : saveStepData(sid, k, v)
  \/ \E sid \in generated, k \in DataKeys : getStepData(sid, k)
  \/ \E sid \in generated : deleteSession(sid)

SpecData == Init /\ [][NextData]_vars

\* the router driven by HTTP requests
NextRoutes ==
  \/ \E c \in ClientNames \cup {""}, i \in Industries, b \in {BriefObject, JsNull} :
       PostSession(c, i, b)
  \/ \E sid \in generated : PostBrief(sid, BriefObject)
  \/ \E sid \in generated, route \in Routes \cup {"C"} : PostRoute(sid, route)
  \/ \E sid \in generated, files \in 0..1, throws \in BOOLEAN :
       PostUpload(sid, files, throws)
  \/ \E sid \in generated : ContentApprove(sid, "")
  \/ \E sid \in generated : ContentReject(sid, "")
  \/ \E sid \in generated, throws \in BOOLEAN : MatrixGenerate(sid, throws)
  \/ \E sid \in generated, d \in Decisions : MatrixReview(sid, d, "")
  \/ \E sid \in generated : PostSample(sid, SampleObject)
  \/ \E sid \in generated, d \in Decisions : SampleValidate(sid, d, "")
  \/ \E sid \in generated, a \in { "", "scenario-based" } : ApproachSelect(sid, a, "")
  \/ \E sid \in generated, throws \in BOOLEAN : ArcGenerate(sid, throws)
  \/ \E sid \in generated : ArcApprove(sid, "")
  \/ \E sid \in generated, throws \in BOOLEAN : SampleGenerate(sid, throws)
  \/ \E sid \in generated : SampleApprove(sid, "")
  \/ \E sid \in generated, throws \in BOOLEAN : BatchGenerate(sid, throws)

SpecRoutes == Init /\ [][NextRoutes]_vars

\* the steps the end-to-end flow passes through
ScenarioSteps == { "route_a_upload", "content_review", "approach_selection_a" }

\* one caller that awaits each manager call before the next: the end-to-end
\* flow on a fresh store, or any other order of the same calls
NextScenario ==
  \/ BeginNew("c1", "scenario", ScenarioQueries)
  \/ \E clientName \in ClientNames, industry \in Industries :
       BeginNew("c1", "createWorkflowSession",
                createWorkflowSessionQueries(clientName, industry))
  \/ \E sid \in generated, route \in Routes :
       Begin("c1", "setRoute", sid, setRouteQueries(route))
  \/ \E sid \in generated, step \in ScenarioSteps :
       Begin("c1", "advanceToStep", sid, advanceToStepQueries(step))
  \/ \E sid \in generated :
       Begin("c1", "saveStepData", sid, saveStepDataQueries("extractedContent", ContentText))
  \/ \E sid \in generated, d \in Decisions :
       Begin("c1", "recordDecision", sid, recordDecisionQueries("content_review", d))
  \/ Run("c1")

SpecScenario == Init /\ [][NextScenario]_vars

\* two callers of one session whose calls overlap: the queries of the calls
\* in progress run in any order
NextOverlap ==
  \/ \E c \in Clients, clientName \in ClientNames, industry \in Industries :
       BeginNew(c, "createWorkflowSession",
                createWorkflowSessionQueries(clientName, industry))
  \/ \E c \in Clients, sid \in Known :
       Begin(c, "advanceToStep", sid, advanceToStepQueries("content_review"))
  \/ \E c \in Clients, sid \in Known :
       Begin(c, "POST /content/approve", sid, ContentApproveQueries)
  \/ \E c \in Clients, sid \in Known :
       Begin(c, "POST /content/reject", sid, ContentRejectQueries)
  \/ \E c \in Clients, sid \in Known :
       Begin(c, "saveStepData", sid, saveStepDataQueries("extractedContent", ContentText))
  \/ \E c \in Clients, sid \in Known :
       Begin(c, "saveContent", sid, saveContentQueries("article-1"))
  \/ \E c \in Clients, sid \in Known :
       Begin(c, "completeSession", sid, completeSessionQueries)
  \/ \E c \in Clients, sid \in Known :
       Begin(c, "DELETE /:sessionId", sid, deleteSessionQueries)
  \/ \E c \in Clients : Run(c)

SpecOverlap == Init /\ [][NextOverlap]_vars

\* the template store after initDatabase alone and after the seeding of
\* startServer
InitPrompts ==
  /\ workflow_sessions = << >>
  /\ session_data = << >>
  /\ human_decisions = << >>
  /\ generated = {}
  /\ last = Call("init", NULL, NULL, NULL, "ok", NULL)
  /\ generated_content = {}
  /\ prompt_templates \in { << >>, seedPromptTemplates(<< >>) }
  /\ cache = [c \in PromptCategory |-> NULL]
  /\ NoServiceCall
  /\ NoJob
  /\ inflight = [c \in Clients |->
                   [name |-> "idle", sid |-> NULL, todo |-> << >>, res |-> "ok"]]

\* the template store read by the generators and written through the
\* service and the prompts router
NextPrompts ==
  \/ \E category \in PromptCategory, fails \in BOOLEAN :
       getPrompt(category, DefaultPrompt(category), fails)
  \/ \E id \in TemplateIds, category \in PromptCategory, template \in TemplateTexts :
       savePrompt(id, "name", category, template)
  \/ \E id \in TemplateIds, category \in PromptCategory \cup {""},
         template \in TemplateTexts :
       PostPrompts(id, "name", category, template)
  \/ \E id \in TemplateIds, category \in PromptCategory \cup {""},
         template \in TemplateTexts \cup {""} :
       PutPrompt(id, template, category)
  \/ \E category \in PromptCategory \cup {""} : PostCacheClear(category)
  \/ \E id \in TemplateIds : PostReset(id)
  \/ \E confirm \in { "", "RESET_ALL_PROMPTS" } : PostResetAll(confirm)

SpecPrompts == InitPrompts /\ [][NextPrompts]_vars

\* the category a seeded id belongs to
SeedCategory(id) ==
  IF id = "arc-gen-001" THEN "arc_generation" ELSE "sample_generation"

\* the seeded store with its templates rewritten while they are rendered:
\* every write names the category of the row it writes
InitPromptRace ==
  /\ InitPrompts
  /\ prompt_templates = seedPromptTemplates(<< >>)

NextPromptRace ==
  \/ \E c \in Clients, category \in PromptCategory :
       getPromptBegin(c, category, DefaultPrompt(category))
  \/ \E c \in Clients, id \in { "arc-gen-001", "sample-gen-001" },
         template \in TemplateTexts :
       savePromptBegin(c, id, "name", SeedCategory(id), template)
  \/ \E c \in Clients, fails \in BOOLEAN : PromptStep(c, fails)

SpecPromptRace == InitPromptRace /\ [][NextPromptRace]_vars

\* two ids handed out by generateId
PairIds == { "s1", "s2" }

\* the store after createWorkflowSession has been called twice
InitPair ==
  /\ workflow_sessions =
       createSession(createSession(<< >>, "s1", "Acme", "Retail"),
                     "s2", "Acme", "Retail")
  /\ session_data = << >>
  /\ human_decisions = << >>
  /\ generated = PairIds
  /\ last = Call("createWorkflowSession", "s2", NULL, NULL, "ok", NULL)
  /\ generated_content = {}
  /\ prompt_templates = << >>
  /\ cache = [c \in PromptCategory |-> NULL]
  /\ NoServiceCall
  /\ NoJob
  /\ inflight = [c \in Clients |->
                   [name |-> "idle", sid |-> NULL, todo |-> << >>, res |-> "ok"]]

\* the manager calls on the two sessions in any order
NextPair ==
  \/ \E sid \in generated, step \in { "content_review", "route_b_research" } :
       advanceToStep(sid, step)
  \/ \E sid \in generated, route \in Routes : setRoute(sid, route)
  \/ \E sid \in generated : saveStepData(sid, "brief", BriefObject)
  \/ \E sid \in generated : recordDecision(sid, "content_review", "approve", "")
  \/ \E sid \in generated : completeSession(sid)
  \/ \E sid \in generated : deleteSession(sid)

SpecPair == InitPair /\ [][NextPair]_vars

\* buildPrompt on every template and every variable map
InitRender ==
  /\ workflow_sessions = << >>
  /\ session_data = << >>
  /\ human_decisions = << >>
  /\ generated = {}
  /\ last = Call("init", NULL, NULL, NULL, "ok", NULL)
  /\ generated_content = {}
  /\ prompt_templates = << >>
  /\ cache = [c \in PromptCategory |-> NULL]
  /\ inflight = [c \in Clients |->
                   [name |-> "idle", sid |-> NULL, todo |-> << >>, res |-> "ok"]]
  /\ \E template \in Templates, variables \in VariableMaps :
       render = [op |-> "input", template |-> template, variables |-> variables,
                 out |-> << >>, res |-> "ok"]
  /\ qc = [op |-> "idle"]
  /\ unit = [op |-> "idle"]
  /\ NoJob

NextRender == BuildPrompt

SpecRender == InitRender /\ [][NextRender]_vars


\* qcAndFix with every answer of the scoring and the repair service
InitQc ==
  /\ workflow_sessions = << >>
  /\ session_data = << >>
  /\ human_decisions = << >>
  /\ generated = {}
  /\ last = Call("init", NULL, NULL, NULL, "ok", NULL)
  /\ generated_content = {}
  /\ prompt_templates = << >>
  /\ cache = [c \in PromptCategory |-> NULL]
  /\ inflight = [c \in Clients |->
                   [name |-> "idle", sid |-> NULL, todo |-> << >>, res |-> "ok"]]
  /\ render = [op |-> "idle", template |-> << >>, variables |-> << >>,
               out |-> << >>, res |-> "ok"]
  /\ unit = [op |-> "idle"]
  /\ NoJob
  /\ \E type \in ArtifactTypes, qc1 \in Responses \cup { Throws },
        fixed \in { Revised, Thrown }, qc2 \in Responses \cup { Throws } :
       qc = [op |-> "input", type |-> type, qc1 |-> qc1, fixed |-> fixed,
             qc2 |-> qc2, out |-> QcResult(<< >>, NULL, JsUndefined, "ok")]

NextQc == QcAndFix \/ SessionQcAndFix

SpecQc == InitQc /\ [][NextQc]_vars

\* the three handlers that write a unit record, with every answer of the
\* services behind the four artifacts
InitUnit ==
  /\ workflow_sessions = << >>
  /\ session_data = << >>
  /\ human_decisions = << >>
  /\ generated = {}
  /\ last = Call("init", NULL, NULL, NULL, "ok", NULL)
  /\ generated_content = {}
  /\ prompt_templates = << >>
  /\ cache = [c \in PromptCategory |-> NULL]
  /\ inflight = [c \in Clients |->
                   [name |-> "idle", sid |-> NULL, todo |-> << >>, res |-> "ok"]]
  /\ render = [op |-> "idle", template |-> << >>, variables |-> << >>,
               out |-> << >>, res |-> "ok"]
  /\ qc = [op |-> "idle"]
  /\ NoJob
  /\ \E stubs \in [1..4 -> Stubs], generatorFails \in BOOLEAN :
       unit = [op |-> "input", stubs |-> stubs, generatorFails |-> generatorFails,
               res |-> "ok", contents |-> [i \in 1..4 |-> Original],
               scores |-> [i \in 1..4 |-> JsUndefined], qcScore |-> JsUndefined]

NextUnit == ProcessSession \/ RerunQc \/ SessionGenerate

SpecUnit == InitUnit /\ [][NextUnit]_vars

\* the progress streams of the program router with jobs that report
InitProgress == Init

NextProgress ==
  \/ \E k \in Connections, jobId \in JobIds : GetProgress(k, jobId)
  \/ \E k \in Connections : CloseProgress(k)
  \/ \E jobId \in JobIds : SendProgress(jobId, "step")

SpecProgress == InitProgress /\ [][NextProgress]_vars

\* a job of the program router with progress requests for it coming and
\* going
NextJob ==
  \/ \E units \in UnitPlans, failsAt \in Stages : PostPrograms(units, failsAt)
  \/ ProcessProgram
  \/ \E k \in Connections : GetProgress(k, "j1")
  \/ \E k \in Connections : CloseProgress(k)

SpecJob == InitProgress /\ [][NextJob]_vars

\* an awaited agent call returns or throws, so a job that has started goes on
SpecJobFair == SpecJob /\ WF_vars(ProcessProgram)

\* a caller that asks getNextStep for the step after a step and goes on
\* from the step it is given, under one route or none
GetNextStep ==
  /\ last.op \in { "walk", "getNextStep" }
  /\ LET currentStep == last.val[Len(last.val)]
     IN /\ currentStep \notin { NULL, "completed" }
        /\ last' = Call("getNextStep", NULL, currentStep, last.from, "ok",
                        Append(last.val, getNextStep(currentStep, last.from)))
  /\ UNCHANGED << workflow_sessions, session_data, human_decisions, generated,
                  generated_content, others >>

InitNextStep ==
  /\ workflow_sessions = << >>
  /\ session_data = << >>
  /\ human_decisions = << >>
  /\ generated = {}
  /\ \E step \in StepNames, route \in Routes \cup { NULL } :
       last = Call("walk", NULL, NULL, route, "ok", << step >>)
  /\ generated_content = {}
  /\ prompt_templates = << >>
  /\ cache = [c \in PromptCategory |-> NULL]
  /\ NoServiceCall
  /\ NoJob
  /\ inflight = [c \in Clients |->
                   [name |-> "idle", sid |-> NULL, todo |-> << >>, res |-> "ok"]]

SpecNextStep == InitNextStep /\ [][GetNextStep]_vars

\* the batch generation of the workflow router
NextBatch ==
  \/ \E units \in SessionPlans : BatchGenerateBegin(units)
  \/ GenerateSession
  \/ BatchGenerateEnd

SpecBatch == InitProgress /\ [][NextBatch]_vars

\* ------------------------------------------------------------------ claims
\* the session a call was made on still exists
LastSessionExists == last.sid \in DOMAIN workflow_sessions

\* the last call was advanceToStep on an existing session
Advanced == last.op = "advanceToStep" /\ last.from # NULL /\ LastSessionExists

\* the last advanceToStep asked for a legal successor of the step it found
AdvancedLegally ==
  Advanced /\ last.arg \in LegalSuccessors(last.from, workflow_sessions[last.sid].route)

C2_LegalAdvanceReported ==
  /\ [](AdvancedLegally =>
          /\ last.res = "ok"
          /\ workflow_sessions[last.sid].current_step = last.arg)
  /\ [][(AdvancedLegally /\ last'.op = "getWorkflowSession" /\ last'.sid = last.sid)
          => (last'.res = "ok" /\ last'.val.current_step = last.arg)]_vars

\* a session on route A was advanced from route_selection to route_a_upload
C2_Witness ==
  /\ AdvancedLegally
  /\ last.from = "route_selection"
  /\ last.arg = "route_a_upload"
  /\ workflow_sessions[last.sid].current_step = "route_a_upload"

\* the steps the tests advance a session at 'brief' to directly
DirectTargets == { "approach_selection_a", "arc_review", "sample_validation" }

\* the last call advanced a session from 'brief' past the steps in between
AdvancedDirectly ==
  /\ Advanced
  /\ last.from = "brief"
  /\ last.arg \in DirectTargets \cup
       (StepNames \ ({"brief"} \cup LegalSuccessors("brief", RouteOf(last.sid))))

\* C3: a session at its initial step 'brief' that is advanced directly to a
\* later step (approach_selection_a, arc_review, sample_validation, ...) without
\* passing through the steps in between ends at that step, and the
\* getWorkflowSession that follows reports it.
C3_DirectAdvanceFromBrief ==
  /\ [](AdvancedDirectly =>
          /\ last.res = "ok"
          /\ workflow_sessions[last.sid].current_step = last.arg)
  /\ [][(AdvancedDirectly /\ last'.op = "getWorkflowSession" /\ last'.sid = last.sid)
          => (last'.res = "ok" /\ last'.val.current_step = last.arg)]_vars

\* a session with no route, no data and no decision went from brief to arc_review
C3_Witness ==
  /\ Advanced
  /\ last.from = "brief"
  /\ last.arg = "arc_review"
  /\ workflow_sessions[last.sid].route = NULL
  /\ human_decisions = << >>
  /\ session_data = << >>
  /\ workflow_sessions[last.sid].current_step = "arc_review"

\* the steps of the graph that belong to one route only; getNextStep sends
\* route B through arc_generation as well
RouteASteps ==
  { "route_a_upload", "content_review", "approach_selection_a",
    "arc_generation", "arc_review" }

RouteBSteps ==
  { "route_b_research", "approach_selection_b", "arc_generation", "arc_review" }

SharedSteps == StepNames \ (RouteASteps \cup RouteBSteps)

StepsUnderRoute(route) ==
  SharedSteps \cup (IF route = "A" THEN RouteASteps
                    ELSE IF route = "B" THEN RouteBSteps ELSE {})

\* the steps only the given route passes through
OwnSteps(route) ==
  IF route = "A" THEN RouteASteps \ RouteBSteps ELSE RouteBSteps \ RouteASteps

\* C4 as stated: while a session with a route is at a step of that route
\* (it has entered the route), no step changes its route.
C4_RouteImmutable ==
  [][\A sid \in DOMAIN workflow_sessions \cap DOMAIN workflow_sessions' :
       (/\ workflow_sessions[sid].route \in Routes
        /\ workflow_sessions[sid].current_step \in OwnSteps(workflow_sessions[sid].route))
       => workflow_sessions'[sid].route = workflow_sessions[sid].route]_vars

\* C6 as stated: a session with status 'completed' at step 'completed' keeps
\* both under every later operation.
C6_CompletedIsTerminal ==
  [][\A sid \in DOMAIN workflow_sessions \cap DOMAIN workflow_sessions' :
       (/\ workflow_sessions[sid].status = "completed"
        /\ workflow_sessions[sid].current_step = "completed")
       => /\ workflow_sessions'[sid].status = "completed"
          /\ workflow_sessions'[sid].current_step = "completed"]_vars

\* C8 as stated: a read that follows a saveStepData which replaced an earlier
\* value of the key returns the value of that second write.
C8_SecondWriteReturned ==
  [][(/\ last.op = "saveStepData"
      /\ last.from # NULL
      /\ last'.op = "getStepData"
      /\ last'.sid = last.sid
      /\ last'.arg = last.arg)
     => last'.val = last.val]_vars

\* C9 as stated: getStepData right after saveStepData(id, key, v) returns v
\* with the type it was saved with.
C9_RoundTrip ==
  [][(/\ last.op = "saveStepData"
      /\ last'.op = "getStepData"
      /\ last'.sid = last.sid
      /\ last'.arg = last.arg)
     => (last'.val.type = last.val.type /\ last'.val = last.val)]_vars

\* C10: reading a key that has no row for the session returns null and does
\* not throw, whatever the state of the session (unknown, active, completed).
C10_AbsentKeyReadsNull ==
  (last.op = "getStepData" /\ <<last.sid, last.arg>> \notin DOMAIN session_data) =>
    /\ last.res = "ok"
    /\ last.val = JsNull

\* a key without a row was read on a completed session
C10_Witness ==
  /\ last.op = "getStepData"
  /\ last.arg = "learningArc"
  /\ <<last.sid, last.arg>> \notin DOMAIN session_data
  /\ LastSessionExists
  /\ workflow_sessions[last.sid].status = "completed"
  /\ last.val = JsNull

\* C5 as stated: in every state the current_step of every session is a shared
\* step of the graph or a step of the session's route.
C5_StepUnderRoute ==
  \A sid \in DOMAIN workflow_sessions :
    workflow_sessions[sid].current_step
      \in StepsUnderRoute(workflow_sessions[sid].route)

\* the step a gate leads to on 'approve' and the step it sends back to
GateForward(gate) ==
  CASE gate = "content_review" -> "approach_selection_a"
    [] gate = "matrix_review" -> "sample_generation"
    [] gate = "sample_validation" -> "batch_generation"

GateRetry(gate) ==
  CASE gate = "content_review" -> "route_a_upload"
    [] gate = "matrix_review" -> "matrix_generation"
    [] gate = "sample_validation" -> "sample_generation"

\* the gate a decision request belongs to
GateOf(op) ==
  CASE op \in { "POST /content/approve", "POST /content/reject" } -> "content_review"
    [] op = "POST /matrix/review" -> "matrix_review"
    [] op = "POST /sample/validate" -> "sample_validation"
    [] OTHER -> NULL

\* C7 as stated: a decision request handled while the session is at its gate
\* moves the session to the gate's next step on 'approve' and back to the
\* gate's retry step on any other decision.
C7_GateDecides ==
  (/\ GateOf(last.op) # NULL
   /\ last.from = GateOf(last.op)
   /\ LastSessionExists) =>
    workflow_sessions[last.sid].current_step =
      IF last.arg = "approve" THEN GateForward(last.from) ELSE GateRetry(last.from)

\* C11: neither saveStepData nor recordDecision transitions the session: the
\* call leaves the row of every session (current_step, route, status) as it
\* found it.
C11_NoTransition ==
  [][last'.op \in { "saveStepData", "recordDecision" }
       => workflow_sessions' = workflow_sessions]_vars

\* a decision was recorded at content_review for a session that is still at
\* content_review on route A
C11_Witness ==
  /\ last.op = "recordDecision"
  /\ last.arg = "content_review"
  /\ LastSessionExists
  /\ workflow_sessions[last.sid].current_step = "content_review"
  /\ workflow_sessions[last.sid].route = "A"
  /\ workflow_sessions[last.sid].status = "active"
  /\ Len(human_decisions) = 1

\* C12: the decision log is append-only: every call other than deleteSession
\* keeps the rows recorded so far, in their order and with their step,
\* decision and feedback, and recordDecision adds exactly one row, the one
\* it was given.
C12_AppendOnly ==
  [][last'.op # "deleteSession" =>
       /\ Len(human_decisions') >= Len(human_decisions)
       /\ SubSeq(human_decisions', 1, Len(human_decisions)) = human_decisions
       /\ last'.op = "recordDecision" =>
            /\ Len(human_decisions') = Len(human_decisions) + 1
            /\ human_decisions'[Len(human_decisions')].session_id = last'.sid
            /\ human_decisions'[Len(human_decisions')].step = last'.arg
            /\ human_decisions'[Len(human_decisions')].decision = last'.val]_vars

\* a second decision was recorded at the step of the first, which is kept
C12_Witness ==
  /\ last.op = "recordDecision"
  /\ Len(human_decisions) = 2
  /\ human_decisions[1].step = human_decisions[2].step
  /\ human_decisions[1].decision = "approve"
  /\ human_decisions[2].decision = "reject"

\* C13: the end-to-end flow createSession('Acme','Retail'), setRoute('A'),
\* advanceToStep('route_a_upload'), save extractedContent,
\* advanceToStep('content_review'), recordDecision('content_review','approve'),
\* advanceToStep('approach_selection_a') runs with every call succeeding and
\* ends with current_step = approach_selection_a and exactly one decision
\* recorded, an 'approve'.
C13_Scenario ==
  \A c \in DOMAIN inflight :
    inflight[c].name = "scenario" =>
      /\ inflight[c].res = "ok"
      /\ last.res = "ok"
      /\ inflight[c].todo = << >> =>
           /\ inflight[c].sid \in DOMAIN workflow_sessions
           /\ workflow_sessions[inflight[c].sid].current_step = "approach_selection_a"
           /\ Len(getDecisions(human_decisions, inflight[c].sid)) = 1
           /\ getDecisions(human_decisions, inflight[c].sid)[1].decision = "approve"

\* the flow has run to its end: the session is on route A with its content saved
C13_Witness ==
  /\ inflight["c1"].name = "scenario"
  /\ inflight["c1"].todo = << >>
  /\ last.op = "updateSession"
  /\ last.val = "approach_selection_a"
  /\ workflow_sessions[inflight["c1"].sid].route = "A"
  /\ workflow_sessions[inflight["c1"].sid].client_name = "Acme"
  /\ getSessionData(session_data, inflight["c1"].sid, "extractedContent") = ContentText

\* what the store holds for one session
RowOf(tbl, sid) == IF sid \in DOMAIN tbl THEN tbl[sid] ELSE NULL

DataOf(tbl, sid) == [k \in { p \in DOMAIN tbl : p[1] = sid } |-> tbl[k]]

\* C14: different sessions are independent: a call on one session leaves the
\* row (current_step, route, status), the step data and the decisions of
\* every other session as they were, in every order of the calls.
C14_Independent ==
  [][\A b \in PairIds :
       b # last'.sid =>
         /\ RowOf(workflow_sessions', b) = RowOf(workflow_sessions, b)
         /\ DataOf(session_data', b) = DataOf(session_data, b)
         /\ getDecisions(human_decisions', b) = getDecisions(human_decisions, b)]_vars

\* session s1 was deleted while s2 is on route B with data and a decision
C14_Witness ==
  /\ last.op = "deleteSession"
  /\ last.sid = "s1"
  /\ "s1" \notin DOMAIN workflow_sessions
  /\ "s2" \in DOMAIN workflow_sessions
  /\ workflow_sessions["s2"].route = "B"
  /\ workflow_sessions["s2"].current_step = "route_b_research"
  /\ <<"s2", "brief">> \in DOMAIN session_data
  /\ Len(getDecisions(human_decisions, "s2")) = 1

\* the requests of the content gate
GateRequests == { "POST /content/approve", "POST /content/reject" }

\* both callers have finished a request of the content gate on session sid
BothDecided(sid) ==
  \A c \in Clients :
    /\ inflight[c].name \in GateRequests
    /\ inflight[c].todo = << >>
    /\ inflight[c].sid = sid

\* C15 as stated: when two gate requests for one session have both finished,
\* overlapping or not, current_step is the step implied by the last decision
\* of the log, as after some one-after-the-other execution of the two.
C15_GateRequestsSerial ==
  \A sid \in DOMAIN workflow_sessions :
    (BothDecided(sid) /\ getDecisions(human_decisions, sid) # << >>) =>
      LET log == getDecisions(human_decisions, sid)
      IN workflow_sessions[sid].current_step =
           IF log[Len(log)].decision = "approve"
           THEN GateForward("content_review") ELSE GateRetry("content_review")

\* C17 as stated: when the last DELETE of deleteSession has run, no session
\* row, step data, decision or generated content with that id is left, also
\* when a call on the same session overlapped the delete.
C17_DeleteLeavesNothing ==
  last.op = "DELETE workflow_sessions" =>
    /\ last.sid \notin DOMAIN workflow_sessions
    /\ DOMAIN DataOf(session_data, last.sid) = {}
    /\ getDecisions(human_decisions, last.sid) = << >>
    /\ { r \in generated_content : r.session_id = last.sid } = {}

\* the step data each generation request reads and tests before it generates
GeneratorNeeds(op, route) ==
  CASE op = "POST /arc/generate" -> { "brief", "extractedContent", "selectedApproach" }
    [] op = "POST /sample/generate" -> { "brief", "programMatrix", "learningArc" }
    [] op = "POST /batch/generate" ->
         { "brief", "programMatrix", "learningArc", "sampleContent" }
    [] op = "POST /matrix/generate" ->
         { "brief" } \cup (IF route = "A" THEN { "extractedContent" }
                           ELSE IF route = "B" THEN { "researchResults", "selectedApproach" }
                           ELSE {})
    [] OTHER -> {}

\* C16: a generation request made while one of the keys it needs has no row
\* is answered with a failure and did not happen: no step data is written
\* and no session row (current_step) changes.
C16_MissingDataNoEffect ==
  [][(\E k \in GeneratorNeeds(last'.op, RouteOf(last'.sid)) :
        <<last'.sid, k>> \notin DOMAIN session_data)
     => /\ last'.res = "400"
        /\ session_data' = session_data
        /\ workflow_sessions' = workflow_sessions]_vars

\* arc generation was asked for with the brief and the content saved but no
\* approach selected: it was refused and nothing was written
C16_Witness ==
  /\ last.op = "POST /arc/generate"
  /\ last.res = "400"
  /\ <<last.sid, "brief">> \in DOMAIN session_data
  /\ <<last.sid, "extractedContent">> \in DOMAIN session_data
  /\ <<last.sid, "selectedApproach">> \notin DOMAIN session_data
  /\ <<last.sid, "learningArc">> \notin DOMAIN session_data
  /\ workflow_sessions[last.sid].current_step = last.from
  /\ last.from = "approach_selection_a"

\* the texts of the active rows the store holds for a category
ActiveTexts(category) ==
  { prompt_templates[i].template :
      i \in { j \in 1..Len(prompt_templates) :
                /\ prompt_templates[j].category = category
                /\ prompt_templates[j].is_active } }

\* C18 as stated: getPrompt never throws; it returns an active stored
\* template of the category when the store holds one and can be read, and
\* the caller's default when the store holds none or the read fails.
C18_GetPromptFallsBack ==
  last.op = "getPrompt" =>
    /\ last.res = "ok"
    /\ (last.from # "error" /\ ActiveTexts(last.arg) # {})
         => last.val \in ActiveTexts(last.arg)
    /\ ActiveTexts(last.arg) = {} => last.val = DefaultPrompt(last.arg)
    /\ last.from = "error" => last.val = DefaultPrompt(last.arg)

\* the calls that write a template, and a write that completed
TemplateWrites == { "savePrompt", "POST /api/prompts", "PUT /api/prompts/:id" }

Written == last.op \in TemplateWrites /\ last.res \in { "ok", "200" }

\* C19 as stated: the getPrompt that follows a completed template write, for
\* the category of the row written, returns the text written.
C19_ReadAfterWrite ==
  [][(/\ Written
      /\ last'.op = "getPrompt"
      /\ last'.arg = last.arg
      /\ last'.from # "error")
     => last'.val = last.val]_vars

\* the text the store is seeded with for a category
SeedText(category) ==
  LET rows == SelectSeq(getDefaultTemplates, LAMBDA r : r.category = category)
  IN IF rows = << >> THEN NULL ELSE rows[1].template

\* a reset that completed, of one template or of all
ResetDone ==
  /\ last.op \in { "POST /api/prompts/:id/reset", "POST /api/prompts/reset" }
  /\ last.res = "200"

\* C20 as stated: the getPrompt that follows a completed reset, for the
\* category of the template reset (any category after a reset of all),
\* returns a default: the seeded text or the caller's default.
C20_ReadAfterReset ==
  [][(/\ ResetDone
      /\ last'.op = "getPrompt"
      /\ (last.op = "POST /api/prompts/reset" \/ last'.arg = last.arg)
      /\ last'.from # "error")
     => last'.val \in { SeedText(last'.arg), DefaultPrompt(last'.arg) }]_vars

\* C21: a getPrompt that starts after an overlapping getPrompt and savePrompt
\* of its category have both finished returns the text the store holds; the
\* cache does not keep the text from before the write
C21_NoStaleAfterOverlap ==
  [][(/\ AllIdle /\ AllIdle'
      /\ last'.op = "getPrompt" /\ last'.from = "cache")
     => last'.val = getPromptTemplateByCategory(prompt_templates, last'.arg).template]_vars

\* the active rows of a category
ActiveRows(category) ==
  SelectSeq(prompt_templates, LAMBDA r : r.category = category /\ r.is_active)

\* C22: in every reachable state of the template store each category has at
\* most one active template
C22_OneActivePerCategory ==
  \A category \in PromptCategory : Len(ActiveRows(category)) <= 1

\* the value of a name in the map, or no entry
EntryOf(variables, name) ==
  SelectSeq(variables, LAMBDA e : e.key = name)

\* the template with every placeholder of a name in the map replaced by the
\* value of the name
RECURSIVE Substituted(_, _, _)
Substituted(template, variables, i) ==
  IF i > Len(template) THEN << >>
  ELSE IF /\ MatchesAt(template, << "{{" >>, i) /\ i + 2 <= Len(template)
          /\ template[i + 2] = "}}" /\ EntryOf(variables, template[i + 1]) # << >>
  THEN EntryOf(variables, template[i + 1])[1].value
         \o Substituted(template, variables, i + 3)
  ELSE << template[i] >> \o Substituted(template, variables, i + 1)

\* C23: buildPrompt replaces every {{name}} of a name in the map by exactly
\* the string form of the value, whatever characters the value holds
C23_ReplacesByValue ==
  render.op = "buildPrompt" =>
    render.out = Substituted(render.template, render.variables, 1)

\* how often {{name}} occurs in a text
RECURSIVE Occurrences(_, _, _)
Occurrences(text, name, i) ==
  IF i > Len(text) THEN 0
  ELSE (IF MatchesAt(text, Placeholder(name), i) THEN 1 ELSE 0)
         + Occurrences(text, name, i + 1)

\* the names of the map
KeysOf(variables) == { variables[i].key : i \in 1..Len(variables) }

QcDone == qc.op \in { "qcAndFix", "sessionQcAndFix" }

\* the first scoring response proposes at least one patch
ProposesPatches(r) == r.patches.type = "array" /\ r.patches.num > 0

\* the repair calls among the calls made
RepairCalls(calls) == SelectSeq(calls, LAMBDA c : c \in { "prose FIX", "chat FIX" })

\* C25: when the first scoring response has ok = true or proposes no patch,
\* qcAndFix returns the artifact handed in with the score of that response
\* after one scoring call and no repair call
C25_AcceptsFirstScore ==
  (/\ QcDone /\ qc.qc1 # Throws
   /\ (qc.qc1.ok = "true" \/ ~ProposesPatches(qc.qc1)))
    => /\ qc.out.res = "ok"
       /\ qc.out.content = Original
       /\ qc.out.score = qc.qc1.score
       /\ qc.out.calls = << "chat QC" >>

C25_Witness ==
  /\ qc.op = "qcAndFix"
  /\ qc.qc1 # Throws /\ qc.qc1.ok = "true" /\ ProposesPatches(qc.qc1)
  /\ qc.out.score = JsNum(100) /\ qc.out.calls = << "chat QC" >>

\* C26: when the first scoring response has ok = false and a patch, qcAndFix
\* makes one repair call, then one scoring call on what the repair returned,
\* and no call after that, whatever the second response says
C26_OneRepair ==
  (/\ QcDone /\ qc.qc1 # Throws
   /\ qc.qc1.ok = "false" /\ ProposesPatches(qc.qc1))
    => /\ Len(RepairCalls(qc.out.calls)) = 1
       /\ Len(qc.out.calls) <= 3
       /\ qc.fixed # Thrown
            => qc.out.calls = << "chat QC", FixCall(qc.type), "chat QC" >>

C26_Witness ==
  /\ qc.op = "qcAndFix"
  /\ qc.qc1 # Throws /\ qc.qc1.ok = "false" /\ ProposesPatches(qc.qc1)
  /\ qc.fixed = Revised
  /\ qc.qc2 # Throws /\ qc.qc2.ok = "false" /\ ProposesPatches(qc.qc2)
  /\ qc.out.calls = << "chat QC", FixCall(qc.type), "chat QC" >>

\* C27: after a repair qcAndFix returns the revised artifact with the score
\* of the second scoring response, be it higher, equal or lower than the first
C27_ReturnsRevised ==
  (/\ QcDone /\ qc.out.res = "ok"
   /\ Len(qc.out.calls) = 3 /\ qc.qc2 # Throws)
    => /\ qc.out.content = Revised
       /\ qc.out.score = qc.qc2.score

C27_Witness ==
  /\ qc.op = "qcAndFix"
  /\ Len(qc.out.calls) = 3 /\ qc.qc2 # Throws
  /\ qc.qc1.score = JsNum(100) /\ qc.qc2.score = JsNum(49)
  /\ qc.out.content = Revised /\ qc.out.score = JsNum(49)

\* a call qcAndFix made has thrown
QcCallFailed ==
  \/ qc.qc1 = Throws
  \/ /\ qc.qc1.ok # "true" /\ ProposesPatches(qc.qc1)
     /\ (qc.fixed = Thrown \/ qc.qc2 = Throws)

\* C28: when the scoring call, the repair call or the second scoring call
\* fails, qcAndFix returns the artifact handed in with the score 50 and
\* throws nothing
C28_FailureFallsBack ==
  (QcDone /\ QcCallFailed)
    => /\ qc.out.res = "ok"
       /\ qc.out.content = Original
       /\ qc.out.score = JsNum(50)

\* C29: every result of qcAndFix carries a number within 0..100 as its score
C29_ScoreInRange ==
  (QcDone /\ qc.out.res = "ok")
    => /\ qc.out.score.type = "number"
       /\ qc.out.score.num \in 0..100

\* a handler has stored a record whose four artifacts were scored
UnitStored ==
  unit.op \in { "processProgram", "rerun-qc", "generate" } /\ unit.res = "ok"

\* C30: the qcScore of a stored unit record is the arithmetic mean of the
\* scores of its four artifacts, rounded to the nearest integer
C30_MeanOfFour ==
  UnitStored =>
    /\ \A i \in 1..4 : unit.scores[i].type = "number"
    /\ unit.qcScore.type = "number"
    /\ 4 * unit.qcScore.num
         - (unit.scores[1].num + unit.scores[2].num + unit.scores[3].num
              + unit.scores[4].num) \in -2..2

\* the events of sendProgress a connection has been written
Delivered(conns, k) == { conns[k].received[i] : i \in 1..Len(conns[k].received) }

\* a sendProgress call for the job is made in this step
Emitted(jobId) == events'[jobId] = events[jobId] + 1

\* C31: an event emitted while no stream is registered for its job is written
\* to no connection, and every event a connection is written is the event
\* of the sendProgress call of that very step (nothing is kept for later);
\* sendProgress has no failing branch
C31_DroppedWithoutSubscriber ==
  [][/\ \A jobId \in JobIds :
          (Emitted(jobId) /\ progressStreams[jobId] = NULL)
            => connections' = connections
     /\ \A k \in Connections :
          \A e \in Delivered(connections', k) \ Delivered(connections, k) :
            \/ e.type = "connected"
            \/ Emitted(e.jobId) /\ e.n = events'[e.jobId]]_vars

\* an event was emitted after the subscriber of the job had disconnected, and
\* a connection that registered later has not been written it
C31_Witness ==
  /\ events["j1"] = 1
  /\ connections["k1"].state = "closed" /\ connections["k1"].jobId = "j1"
  /\ connections["k1"].since = 0
  /\ connections["k2"].state = "open" /\ connections["k2"].jobId = "j1"
  /\ connections["k2"].since = 1
  /\ \A k \in Connections : Len(connections[k].received) = 1

\* the event of the sendProgress call of this step is written to k
WrittenTo(k, jobId) ==
  Event(jobId, events'[jobId], "step") \in Delivered(connections', k)

\* C32: once a second connection has registered for a job id that had a
\* subscriber, every event of the job is written to the second connection
\* while it is open, and the first connection is written nothing more
C32_LastRegisteredWins ==
  [][\A jobId \in JobIds, first \in Connections, second \in Connections :
       (/\ connections[first].jobId = jobId /\ connections[second].jobId = jobId
        /\ connections[first].nth < connections[second].nth
        /\ connections[second].state = "open"
        /\ Emitted(jobId))
         => /\ WrittenTo(second, jobId)
            /\ connections'[first].received = connections[first].received]_vars

\* k is the latest registration for its job id
LatestFor(k, jobId) ==
  /\ connections[k].jobId = jobId
  /\ \A c \in Connections :
       connections[c].jobId = jobId => connections[c].nth <= connections[k].nth

\* C33: the latest registration for a job id is written every event of the
\* job while its own connection is open, whatever the other connections do
C33_LatestReceivesWhileOpen ==
  [][\A jobId \in JobIds, k \in Connections :
       (LatestFor(k, jobId) /\ connections[k].state = "open" /\ Emitted(jobId))
         => WrittenTo(k, jobId)]_vars

\* the job has ended
Terminal == job.pc \in { "completed", "failed" }

\* the records a job stores when nothing but its agent calls decides:
\* none when a call before the units throws, one per unit otherwise
ExpectedResults(units, failsAt) ==
  IF failsAt \in { "brief", "matrix", "sourcing" } THEN << >>
  ELSE [i \in 1..Len(units) |-> SessionRecord(i, units[i])]

\* C34: a job that has started reaches completion or failure, and the
\* records it has stored by then are those its agent calls decide, whatever
\* the progress requests did during the run
C34_JobUnaffectedBySubscribers ==
  /\ (job.pc # "idle") ~> Terminal
  /\ [](Terminal =>
          /\ job.results = ExpectedResults(job.units, job.failsAt)
          /\ job.pc = IF job.failsAt = "none" THEN "completed" ELSE "failed")

\* a job has completed with a record per unit although its subscriber
\* disconnected during the run and nobody was registered at the end
C34_Witness ==
  /\ job.pc = "completed" /\ Len(job.results) = 2
  /\ progressStreams["j1"] = NULL
  /\ connections["k1"].state = "closed" /\ Len(connections["k1"].received) = 3
  /\ connections["k2"].state = "none"

\* the planned units whose generation fails. The first session of the
\* workflow batch is the approved sample and is not generated.
FailedUnits(units) == { i \in DOMAIN units : units[i] }

\* C35: a failing unit does not end the job: when the units are through
\* there is one record per planned unit, and the record of each unit whose
\* generation failed carries an error marker
C35_FailedUnitRecorded ==
  /\ job.pc \in { "packager", "completed" } =>
       /\ Len(job.results) = Len(job.units)
       /\ \A i \in FailedUnits(job.units) : job.results[i].error # NULL
  /\ batch.op = "answered" =>
       /\ Len(batch.results) = Len(batch.units)
       /\ \A i \in FailedUnits(batch.units) \ {1} : batch.results[i].error # NULL

\* C36: the final summary reports the failed units and the successful
\* ones, the two adding up to the total, and does not report success
\* without a failed count when a unit failed
SummaryCounts(summary, units, failed) ==
  /\ summary.totalSessions = JsNum(Len(units))
  /\ summary.failedSessions = JsNum(Cardinality(failed))
  /\ summary.completedSessions = JsNum(Len(units) - Cardinality(failed))

C36_SummaryCountsFailures ==
  /\ job.pc = "completed" => SummaryCounts(job.summary, job.units, FailedUnits(job.units))
  /\ batch.op = "answered" =>
       SummaryCounts(batch.summary, batch.units, FailedUnits(batch.units) \ {1})

\* the last request saved the brief of a session and was answered 200
BriefSaved ==
  /\ last.op \in { "POST /", "POST /brief" }
  /\ last.res = "200"
  /\ last.sid \in DOMAIN workflow_sessions
  /\ << last.sid, "brief" >> \in DOMAIN session_data

\* C37: a request that saved the brief of a session, POST / with a brief or
\* POST /:sessionId/brief, leaves the session at framework_selection
C37_BriefLeadsToFramework ==
  BriefSaved => workflow_sessions[last.sid].current_step = "framework_selection"

\* the forward edge of a step in the fixed step graph, NULL where the graph
\* names none
GraphNext(step, route) ==
  CASE step = "brief" -> "framework_selection"
    [] step = "framework_selection" -> "route_selection"
    [] step = "route_selection" /\ route = "A" -> "route_a_upload"
    [] step = "route_selection" /\ route = "B" -> "route_b_research"
    [] step = "route_a_upload" -> "content_review"
    [] step = "content_review" -> "approach_selection_a"
    [] step = "approach_selection_a" -> "arc_generation"
    [] step = "arc_generation" -> "arc_review"
    [] step = "arc_review" -> "matrix_generation"
    [] step = "route_b_research" -> "approach_selection_b"
    [] step = "approach_selection_b" -> "matrix_generation"
    [] step = "matrix_generation" -> "matrix_review"
    [] step = "matrix_review" -> "sample_generation"
    [] step = "sample_generation" -> "sample_validation"
    [] step = "sample_validation" -> "batch_generation"
    [] step = "batch_generation" -> "completed"
    [] OTHER -> NULL

\* C38: for every step that has a successor in the fixed step graph under
\* the route, getNextStep returns that successor
C38_NextStepIsGraph ==
  (last.op = "getNextStep" /\ GraphNext(last.arg, last.from) # NULL)
    => last.val[Len(last.val)] = GraphNext(last.arg, last.from)

\* C39: in every state a session has status 'completed' exactly when its
\* current_step is 'completed'
C39_CompletedStatusIffStep ==
  \A sid \in DOMAIN workflow_sessions :
    (workflow_sessions[sid].status = "completed")
      <=> (workflow_sessions[sid].current_step = "completed")

\* the entries of a map listed in the opposite order
Reversed(variables) ==
  [i \in 1..Len(variables) |-> variables[Len(variables) + 1 - i]]

\* no value of the map holds a dollar sign, the replacement patterns of C23
DollarFree(variables) ==
  \A i \in 1..Len(variables) :
    \A j \in 1..Len(variables[i].value) : variables[i].value[j] # "$"

\* C40: the output of buildPrompt is the same for the entries listed in the
\* opposite order, and it is the template with each placeholder replaced
\* once: a value holding {{b}} stands in the output as it is, also when b is
\* in the map. Stated for values without a dollar sign.
C40_OrderIndependent ==
  (render.op = "buildPrompt" /\ DollarFree(render.variables)) =>
    /\ render.out = buildPrompt(render.template, Reversed(render.variables))
    /\ render.out = Substituted(render.template, render.variables, 1)
====
